---- MODULE Spec2Model ----
(***************************************************************************)
(* View-transform pipeline of the GPU accelerated wireframe renderer:      *)
(* the Matrix algebra, the ViewContext (forward and inverse 4x4            *)
(* transform built from translation, rotation and scale), and the          *)
(* ShapeContainer that packs triangles into device buffers, runs the       *)
(* applyViewTransform kernel and draws the reconstructed triangles.        *)
(*                                                                         *)
(* Numbers.  The program computes in double and float.  The model          *)
(* computes in exact rational arithmetic: a number is a pair <<n, d>>      *)
(* in lowest terms with d > 0.  Rounding is therefore not modelled.        *)
(* Angles are held in units of pi/2 (quarter turns), the angles at         *)
(* which sine and cosine are rational; 2*pi is the angle 4.                *)
(***************************************************************************)
EXTENDS Integers, Sequences, FiniteSets, TLC

(***************************************************************************)
(* Bounds of the model.                                                    *)
(***************************************************************************)
\* translation arguments are the multiples 0..MaxTrans of the vector
\* (1, -1, 2); translate( x, y, z ) is applied while the components of the
\* stored translation stay within magnitude 4 * MaxTrans
MaxTrans == 1
\* rotation arguments range over -MaxRot..(4 + MaxRot) quarter turns
MaxRot == 1
\* scale( x, y, z ) is applied while the scale components stay integers
\* of magnitude at most MaxScale
MaxScale == 100
\* a ShapeContainer holds at most MaxShapes shapes
MaxShapes == 2
\* the device has room for MaxAddr allocations, at the addresses 1..MaxAddr
MaxAddr == 3

\* the most Triangle objects the draw calls of a run make
MaxLive == 2

(***************************************************************************)
(* Scalar arithmetic (the double / float operators +, -, *, /).            *)
(***************************************************************************)
Abs(x) == IF x < 0 THEN -x ELSE x

RECURSIVE Gcd(_, _)
Gcd(a, b) == IF b = 0 THEN a ELSE Gcd(b, a % b)

\* the number n / d, d # 0, in lowest terms
Rat(n, d) ==
    LET g == Gcd(Abs(n), Abs(d))
    IN  IF d < 0 THEN <<(-n) \div g, (-d) \div g>> ELSE <<n \div g, d \div g>>

R(n) == <<n, 1>>

\* a + b (the cases without a common denominator to reduce come first)
RAdd(a, b) ==
    IF a[1] = 0 THEN b
    ELSE IF b[1] = 0 THEN a
    ELSE IF a[2] = 1 /\ b[2] = 1 THEN <<a[1] + b[1], 1>>
    ELSE Rat(a[1] * b[2] + b[1] * a[2], a[2] * b[2])

RNeg(a) == <<-a[1], a[2]>>

RMul(a, b) ==
    IF a[1] = 0 \/ b[1] = 0 THEN <<0, 1>>
    ELSE IF a[2] = 1 /\ b[2] = 1 THEN <<a[1] * b[1], 1>>
    ELSE Rat(a[1] * b[1], a[2] * b[2])

\* a / b for b # 0
RDiv(a, b) == Rat(a[1] * b[2], a[2] * b[1])

\* cos and sin at q quarter turns
Mut_QCos(q) == CASE q = 0 -> R(1) [] q = 2 -> R(-1) [] OTHER -> R(0)

QCos(q) == CASE q % 4 = 0 -> R(1) [] q % 4 = 2 -> R(-1) [] OTHER -> R(0)

QSin(q) == CASE q % 4 = 1 -> R(1) [] q % 4 = 3 -> R(-1) [] OTHER -> R(0)

(***************************************************************************)
(* Matrix<T>: a matrix is the sequence of its rows (row-major).            *)
(***************************************************************************)
RECURSIVE Repeat(_, _)
\* n copies of v
Repeat(v, n) == IF n = 0 THEN <<>> ELSE Append(Repeat(v, n - 1), v)

\* Matrix( rows, cols ): zero-initialised
Matrix(rows, cols) == Repeat(Repeat(R(0), cols), rows)

getRows(m) == Len(m)

getColumns(m) == IF Len(m) = 0 THEN 0 ELSE Len(m[1])

RECURSIVE MatDot(_, _, _, _, _)
\* the running sum of operator*: sum += ( *this )[row][i] * m[i][col]
MatDot(a, b, row, col, i) ==
    IF i = 0 THEN R(0)
    ELSE RAdd(MatDot(a, b, row, col, i - 1), RMul(a[row][i], b[i][col]))

RECURSIVE MatMulRow(_, _, _, _)
\* product[row][1..col] of operator*
MatMulRow(a, b, row, col) ==
    IF col = 0 THEN <<>>
    ELSE Append(MatMulRow(a, b, row, col - 1),
                MatDot(a, b, row, col, getRows(b)))

RECURSIVE MatMulRows(_, _, _)
\* rows 1..row of the product
MatMulRows(a, b, row) ==
    IF row = 0 THEN <<>>
    ELSE Append(MatMulRows(a, b, row - 1), MatMulRow(a, b, row, getColumns(b)))

\* operator*( const Matrix<T> &m ): defined when cols = m.rows
MatMul(a, b) == MatMulRows(a, b, getRows(a))

RECURSIVE TransposeRow(_, _, _)
\* transpose[col][1..row] = m[1..row][col]
TransposeRow(m, col, row) ==
    IF row = 0 THEN <<>>
    ELSE Append(TransposeRow(m, col, row - 1), m[row][col])

RECURSIVE TransposeRows(_, _)
TransposeRows(m, col) ==
    IF col = 0 THEN <<>>
    ELSE Append(TransposeRows(m, col - 1), TransposeRow(m, col, getRows(m)))

\* operator~: the transpose
MatTranspose(m) == TransposeRows(m, getColumns(m))

\* Vector4<double>( x, y, z, w ): a 4x1 matrix
Vector4(x, y, z, w) == << <<x>>, <<y>>, <<z>>, <<w>> >>

\* Point3D::transform: m * (x, y, z, 1), the homogeneous component dropped
PointTransform(p, m) ==
    LET transformVector == MatMul(m, Vector4(p[1], p[2], p[3], R(1)))
    IN  <<transformVector[1][1], transformVector[2][1], transformVector[3][1]>>

(***************************************************************************)
(* ViewContext: defaults and the generated sub-matrices.                   *)
(***************************************************************************)
DEFAULT_VIEW_TRANSLATION == <<R(0), R(0), R(0)>>

DEFAULT_VIEW_ROTATION == <<0, 0>>

DEFAULT_VIEW_SCALE == <<R(100), R(100), R(100)>>

\* 2 * M_PI in quarter turns
TWO_PI == 4

\* a fresh Matrix( 4, 4 ) with the diagonal set to 1
Identity4 ==
    [Matrix(4, 4) EXCEPT ![1][1] = R(1), ![2][2] = R(1), ![3][3] = R(1),
                         ![4][4] = R(1)]

genViewTranslationMatrix(t) ==
    [Identity4 EXCEPT ![1][4] = t[1], ![2][4] = t[2], ![3][4] = t[3]]

genViewRotationMatrix(rot) ==
    LET viewRotationXMatrix ==
            [Matrix(4, 4) EXCEPT ![1][1] = R(1), ![4][4] = R(1),
                                 ![2][2] = QCos(rot[1]),
                                 ![2][3] = RNeg(QSin(rot[1])),
                                 ![3][2] = QSin(rot[1]),
                                 ![3][3] = QCos(rot[1])]
        viewRotationYMatrix ==
            [Matrix(4, 4) EXCEPT ![2][2] = R(1), ![4][4] = R(1),
                                 ![1][1] = QCos(rot[2]),
                                 ![3][1] = RNeg(QSin(rot[2])),
                                 ![1][3] = QSin(rot[2]),
                                 ![3][3] = QCos(rot[2])]
    IN  MatMul(viewRotationXMatrix, viewRotationYMatrix)

genViewScaleMatrix(s) ==
    [Matrix(4, 4) EXCEPT ![1][1] = s[1], ![2][2] = s[2], ![3][3] = s[3],
                         ![4][4] = R(1)]

genInvViewTranslationMatrix(t) ==
    LET m == genViewTranslationMatrix(t)
    IN  [m EXCEPT ![1][4] = RMul(R(-1), m[1][4]),
                  ![2][4] = RMul(R(-1), m[2][4]),
                  ![3][4] = RMul(R(-1), m[3][4])]

\* the inverse taken without the transpose
Mut_genInvViewRotationMatrix(rot) == genViewRotationMatrix(rot)

genInvViewRotationMatrix(rot) == MatTranspose(genViewRotationMatrix(rot))

Mut_genInvViewScaleMatrix(s) ==
    LET m == genViewScaleMatrix(s)
    IN  [m EXCEPT ![1][1] = RDiv(R(1), m[1][1]),
                  ![2][2] = RDiv(R(1), m[2][2])]

\* 1 / scale on the diagonal; the scale components are nonzero
genInvViewScaleMatrix(s) ==
    LET m == genViewScaleMatrix(s)
    IN  [m EXCEPT ![1][1] = RDiv(R(1), m[1][1]),
                  ![2][2] = RDiv(R(1), m[2][2]),
                  ![3][3] = RDiv(R(1), m[3][3])]

\* the window size in the last column, not its half
Mut_genScreenTranslationMatrix(w, h) ==
    [Identity4 EXCEPT ![1][4] = R(w), ![2][4] = R(h)]

\* ( double ) width / 2 and ( double ) height / 2 in the last column
genScreenTranslationMatrix(w, h) ==
    [Identity4 EXCEPT ![1][4] = RDiv(R(w), R(2)), ![2][4] = RDiv(R(h), R(2))]

genScreenFlipMatrix ==
    [Matrix(4, 4) EXCEPT ![1][1] = R(1), ![2][2] = R(-1), ![3][3] = R(1),
                         ![4][4] = R(1)]

genInvScreenTranslationMatrix(w, h) ==
    LET m == genScreenTranslationMatrix(w, h)
    IN  [m EXCEPT ![1][4] = RMul(R(-1), m[1][4]),
                  ![2][4] = RMul(R(-1), m[2][4]),
                  ![3][4] = RMul(R(-1), m[3][4])]

genInvScreenFlipMatrix ==
    LET m == genScreenFlipMatrix
    IN  [m EXCEPT ![1][1] = RDiv(R(1), m[1][1]),
                  ![2][2] = RDiv(R(1), m[2][2]),
                  ![3][3] = RDiv(R(1), m[3][3])]

\* the forward matrix that update() assigns to transform
UpdateTransform(t, rot, s, w, h) ==
    MatMul(MatMul(MatMul(MatMul(genScreenTranslationMatrix(w, h),
                                genScreenFlipMatrix),
                         genViewScaleMatrix(s)),
                  genViewRotationMatrix(rot)),
           genViewTranslationMatrix(t))

\* the inverse matrix that update() assigns to invTransform
UpdateInvTransform(t, rot, s, w, h) ==
    MatMul(MatMul(MatMul(MatMul(genInvViewTranslationMatrix(t),
                                genInvViewRotationMatrix(rot)),
                         genInvViewScaleMatrix(s)),
                  genInvScreenFlipMatrix),
           genInvScreenTranslationMatrix(w, h))

RECURSIVE NormalizeDown(_)
\* while ( x > ( 2 * M_PI ) ) x -= 2 * M_PI
NormalizeDown(x) == IF x > TWO_PI THEN NormalizeDown(x - TWO_PI) ELSE x

RECURSIVE NormalizeUp(_)
\* while ( x < 0 ) x += 2 * M_PI
NormalizeUp(x) == IF x < 0 THEN NormalizeUp(x + TWO_PI) ELSE x

Mut_NormalizeRotation(x) == NormalizeDown(x)

\* the angle setRotation stores for the argument x
NormalizeRotation(x) == NormalizeUp(NormalizeDown(x))

(***************************************************************************)
(* State.                                                                  *)
(***************************************************************************)
VARIABLES
    \* ViewContext: the seven view parameters and the two matrices
    viewTranslation, viewRotation, viewScale, transform, invTransform,
    \* the window size the graphics context reports
    windowWidth, windowHeight,
    \* DrawContext::drawAxis
    drawAxis,
    \* DrawContext: the drag flags and the two points of a drag
    panActive, orbitActive, mouseStartPos, lastMouseDelta,
    \* the window size that the latest update() was given (history)
    updateWidth, updateHeight,
    \* ShapeContainer: the shapes and the two device pointers
    shapes, d_inputShapes, d_outputShapes,
    \* ViewContext::d_viewTransform, the device pointer of the transform
    d_viewTransform,
    \* device memory: the contents of every live allocation, by address
    deviceMem,
    \* the error state of the CUDA runtime (what cudaGetLastError reports)
    cudaLastError,
    \* where the host thread is: "idle", inside pushToDevice or draw,
    \* "exited" after exit( 1 ), "destroyed" after ~ShapeContainer
    pc,
    \* the running kernel: in-bounds work units still to run, the number of
    \* launched work units beyond the buffers still to run, whether a unit
    \* has hit an illegal address, the work units that have run, and the
    \* input buffer and transform as they were at the launch (history)
    pendingUnits, overrunPending, kernelFault, unitsRun, launchSnapshot,
    \* host arrays of pushToDevice and draw, and the triangles draw rebuilt
    inputShapes, outputShapes, parsedShapes,
    \* history: the collection was changed (add, erase, assignment) since
    \* the latest pushToDevice or since construction, and the shape count at
    \* the latest pushToDevice (-1 before the first)
    mutated, pushedCount,
    \* the Triangle objects draw calls made with new and that no delete
    \* has released
    liveTriangles,
    \* two Matrix objects, the value the latest Matrix operator returned and
    \* the exception it threw
    ma, mb, mres, merr,
    \* the element storage (std::vector) of each Matrix object
    vecs,
    \* the Triangle and Point3D objects on the heap, the pointers the
    \* container holds, the pointers of a second container, the Triangle of
    \* the caller of add, whether an object was deleted that was not live,
    \* and whether the container has been destroyed
    heap, held, heldB, callerShape, doubleDelete, destroyed,
    \* the ViewContextException that escaped a pan
    viewException

viewVars == <<viewTranslation, viewRotation, viewScale, transform,
              invTransform, updateWidth, updateHeight>>

mouseVars == <<panActive, orbitActive, mouseStartPos, lastMouseDelta>>

uiVars == <<windowWidth, windowHeight, drawAxis, mouseVars>>

scVars == <<shapes, d_inputShapes, d_outputShapes, inputShapes, outputShapes,
            parsedShapes, mutated, pushedCount, liveTriangles>>

deviceVars == <<d_viewTransform, deviceMem, cudaLastError, pendingUnits,
                overrunPending, kernelFault, unitsRun, launchSnapshot>>

matVars == <<ma, mb, mres, merr, vecs>>

heapVars == <<heap, held, heldB, callerShape, doubleDelete, destroyed>>

\* what neither the ViewContext nor the drawing touches
auxVars == <<matVars, heapVars, viewException>>

vars == <<viewVars, uiVars, scVars, deviceVars, pc, auxVars>>

\* what the ViewContext operations leave alone
nonViewVars == <<uiVars, scVars, deviceVars, pc, auxVars>>

(***************************************************************************)
(* Inputs of the ViewContext operations.                                   *)
(***************************************************************************)
TransArgs == {<<R(a), R(-a), R(2 * a)>> : a \in 0..MaxTrans}

RotArgs == -MaxRot..(TWO_PI + MaxRot)

RotPairs ==
    {a \in RotArgs \X RotArgs : a[1] = 0 \/ a[2] = 0 \/ a[1] = a[2]}

RotDeltas == {a \in (-MaxRot..MaxRot) \X (-MaxRot..MaxRot) : a[1] = 0 \/ a[2] = 0}

ScaleArgs == {DEFAULT_VIEW_SCALE, <<R(50), R(-25), R(3)>>}

ScaleFactors == {<<R(2), R(2), R(1)>>, <<Rat(1, 2), Rat(1, 2), R(1)>>}

\* X11Context( 800, 800, ... ) and the sizes a resize can give the window
WindowSizes == {<<800, 800>>, <<641, 480>>}

(***************************************************************************)
(* ViewContext operations.  Every mutator ends in update().                *)
(***************************************************************************)
\* update(): both matrices rebuilt from the parameters and the window size
update(t, rot, s) ==
    /\ transform' = UpdateTransform(t, rot, s, windowWidth, windowHeight)
    /\ invTransform' = UpdateInvTransform(t, rot, s, windowWidth, windowHeight)
    /\ updateWidth' = windowWidth
    /\ updateHeight' = windowHeight

setTranslation(x, y, z) ==
    /\ viewTranslation' = <<x, y, z>>
    /\ UNCHANGED <<viewRotation, viewScale>>
    /\ update(<<x, y, z>>, viewRotation, viewScale)

setRotation(x, y) ==
    /\ viewRotation' = <<NormalizeRotation(x), NormalizeRotation(y)>>
    /\ UNCHANGED <<viewTranslation, viewScale>>
    /\ update(viewTranslation, viewRotation', viewScale)

Mut_setScale(x, y, z) ==
    /\ viewScale' = <<x, y, z>>
    /\ UNCHANGED <<viewTranslation, viewRotation, transform, invTransform,
                   updateWidth, updateHeight>>

setScale(x, y, z) ==
    /\ viewScale' = <<x, y, z>>
    /\ UNCHANGED <<viewTranslation, viewRotation>>
    /\ update(viewTranslation, viewRotation, <<x, y, z>>)

Mut_translate(x, y, z) == setTranslation(x, y, z)

translate(x, y, z) ==
    setTranslation(RAdd(viewTranslation[1], x), RAdd(viewTranslation[2], y),
                   RAdd(viewTranslation[3], z))

rotate(x, y) == setRotation(viewRotation[1] + x, viewRotation[2] + y)

scale(x, y, z) ==
    setScale(RMul(viewScale[1], x), RMul(viewScale[2], y),
             RMul(viewScale[3], z))

resetTranslation ==
    setTranslation(DEFAULT_VIEW_TRANSLATION[1], DEFAULT_VIEW_TRANSLATION[2],
                   DEFAULT_VIEW_TRANSLATION[3])

resetRotation == setRotation(DEFAULT_VIEW_ROTATION[1], DEFAULT_VIEW_ROTATION[2])

resetScale ==
    setScale(DEFAULT_VIEW_SCALE[1], DEFAULT_VIEW_SCALE[2], DEFAULT_VIEW_SCALE[3])

Mut_resetView ==
    /\ viewTranslation' = DEFAULT_VIEW_TRANSLATION
    /\ viewRotation' = <<NormalizeRotation(DEFAULT_VIEW_ROTATION[1]),
                         NormalizeRotation(DEFAULT_VIEW_ROTATION[2])>>
    /\ viewScale' = viewScale
    /\ update(viewTranslation', viewRotation', viewScale')

\* resetView(): the three resets in turn, each ending in update()
resetView ==
    /\ viewTranslation' = DEFAULT_VIEW_TRANSLATION
    /\ viewRotation' = <<NormalizeRotation(DEFAULT_VIEW_ROTATION[1]),
                         NormalizeRotation(DEFAULT_VIEW_ROTATION[2])>>
    /\ viewScale' = DEFAULT_VIEW_SCALE
    /\ update(viewTranslation', viewRotation', viewScale')

\* modelToDevice( p ) and deviceToModel( p )
modelToDevice(p) == PointTransform(p, transform)

deviceToModel(p) == PointTransform(p, invTransform)

(***************************************************************************)
(* Device memory and the CUDA runtime.                                     *)
(*                                                                         *)
(* A device allocation lives at one of the addresses 1..MaxAddr, in        *)
(* address order; cudaMalloc may return any free address.  An element of   *)
(* device memory that has not been written, or that was written through an *)
(* index outside its buffer, holds the indeterminate value Indet.          *)
(***************************************************************************)
NULL == 0

DeviceAddrs == 1..MaxAddr

SHAPE_DIM == 3

VERT_DIM == 4

\* threads per block of the launch applyViewTransform<<<blocks, 1024>>>
BLOCK_SIZE == 1024

Indet == <<0, 0>>

IsIndet(a) == a[2] = 0

\* float + and * on the device, on values that may be indeterminate
FAdd(a, b) == IF IsIndet(a) \/ IsIndet(b) THEN Indet ELSE RAdd(a, b)

FMul(a, b) == IF IsIndet(a) \/ IsIndet(b) THEN Indet ELSE RMul(a, b)

\* cudaMalloc( &p, n * sizeof( float ) ) returning the address a
DeviceAlloc(mem, a, n) ==
    [x \in DOMAIN mem \cup {a} |-> IF x = a THEN Repeat(Indet, n) ELSE mem[x]]

\* cudaFree( a )
DeviceFree(mem, a) == [x \in DOMAIN mem \ {a} |-> mem[x]]

\* the elements of the allocation at a (none for the null pointer)
Capacity(mem, a) == IF a \in DOMAIN mem THEN Len(mem[a]) ELSE 0

\* device memory after writes through indices beyond the end of the
\* buffer at a: they land in the allocations at the addresses above it
Overrun(mem, a) ==
    [x \in DOMAIN mem |-> IF x > a THEN Repeat(Indet, Len(mem[x])) ELSE mem[x]]

(***************************************************************************)
(* ShapeContainer: packing, the kernel and the reconstruction.             *)
(***************************************************************************)
\* the facets a caller or an STL file supplies
Triangle1 ==
    << <<R(0), R(0), R(0)>>, <<R(1), R(0), R(0)>>, <<R(0), R(1), R(0)>> >>

Triangle2 ==
    << <<R(1), R(2), R(3)>>, <<R(-1), Rat(1, 2), R(0)>>, <<R(2), R(-2), R(1)>> >>

RECURSIVE PackLoop(_, _, _)
\* the three nested loops of pushToDevice, k counting their iterations:
\* inputShapes[shapeOffset + vertOffset + coordIdx] = coordinate or 1
PackLoop(shs, buf, k) ==
    IF k = Len(shs) * SHAPE_DIM * VERT_DIM THEN buf
    ELSE LET shapeIdx == k \div (SHAPE_DIM * VERT_DIM)
             vertIdx == (k \div VERT_DIM) % SHAPE_DIM
             coordIdx == k % VERT_DIM
             shapeOffset == shapeIdx * SHAPE_DIM * VERT_DIM
             vertOffset == vertIdx * VERT_DIM
             v == IF coordIdx < VERT_DIM - 1
                  THEN shs[shapeIdx + 1][vertIdx + 1][coordIdx + 1]
                  ELSE R(1)
         IN  PackLoop(shs,
                      [buf EXCEPT ![shapeOffset + vertOffset + coordIdx + 1] = v],
                      k + 1)

\* float inputShapes[shapes.size() * SHAPE_DIM * VERT_DIM], filled
PackShapes(shs) ==
    PackLoop(shs, Repeat(Indet, Len(shs) * SHAPE_DIM * VERT_DIM), 0)

RECURSIVE FlattenLoop(_, _, _)
\* viewTransform[row][col] = ViewContext::transform[row][col], row-major
FlattenLoop(m, buf, k) ==
    IF k = VERT_DIM * VERT_DIM THEN buf
    ELSE FlattenLoop(m, Append(buf, m[(k \div VERT_DIM) + 1][(k % VERT_DIM) + 1]),
                     k + 1)

FlattenTransform(m) == FlattenLoop(m, <<>>, 0)

RECURSIVE KernelLoop(_, _, _, _, _)
\* the body of applyViewTransform for the work unit shapeIdx, k counting
\* the iterations of its three nested loops:
\* outputShapes[shapeOffset + vertOffset + row] +=
\*     viewTransform[rowOffset + i] * inputShapes[shapeOffset + vertOffset + i]
KernelLoop(inBuf, outBuf, viewTransform, shapeIdx, k) ==
    IF k = SHAPE_DIM * VERT_DIM * VERT_DIM THEN outBuf
    ELSE LET vertIdx == k \div (VERT_DIM * VERT_DIM)
             row == (k \div VERT_DIM) % VERT_DIM
             i == k % VERT_DIM
             shapeOffset == shapeIdx * SHAPE_DIM * VERT_DIM
             vertOffset == vertIdx * VERT_DIM
             rowOffset == row * VERT_DIM
             o == shapeOffset + vertOffset + row + 1
         IN  KernelLoop(inBuf,
                        [outBuf EXCEPT ![o] =
                            FAdd(outBuf[o],
                                 FMul(viewTransform[rowOffset + i + 1],
                                      inBuf[shapeOffset + vertOffset + i + 1]))],
                        viewTransform, shapeIdx, k + 1)

applyViewTransform(inBuf, outBuf, viewTransform, shapeIdx) ==
    KernelLoop(inBuf, outBuf, viewTransform, shapeIdx, 0)

\* unsigned int blocks = ceil( shapes.size() / 1024.0 )
Blocks(n) == (n + BLOCK_SIZE - 1) \div BLOCK_SIZE

\* the first n elements of a device buffer copied to the host; elements
\* read beyond the end of the buffer are indeterminate
DeviceRead(buf, n) == [k \in 1..n |-> IF k <= Len(buf) THEN buf[k] ELSE Indet]

Mut_DeviceZero(buf, n) == buf

\* the first n elements of a device buffer set to zero
DeviceZero(buf, n) == [k \in 1..Len(buf) |-> IF k <= n THEN R(0) ELSE buf[k]]

\* Triangle( verts[0], verts[1], verts[2] ) for every shape of the output:
\* vertex vertIdx of shape shapeIdx is outputShapes[shapeOffset +
\* vertOffset + 0..2]
ParseShapes(out, n) ==
    [shapeIdx \in 1..n |->
        [vertIdx \in 1..SHAPE_DIM |->
            LET shapeOffset == (shapeIdx - 1) * SHAPE_DIM * VERT_DIM
                vertOffset == (vertIdx - 1) * VERT_DIM
            IN  <<out[shapeOffset + vertOffset + 1],
                  out[shapeOffset + vertOffset + 2],
                  out[shapeOffset + vertOffset + 3]>>]]

(***************************************************************************)
(* The Matrix class as an object: a value is a record of rows, cols and    *)
(* the row-major element vector inner.  Element (row, col), both counted   *)
(* from 0, is inner[row * cols + col + 1].  An operator yields a record    *)
(* of the exception it throws (err), the value it returns (val) and the    *)
(* left operand after the call (self).                                     *)
(***************************************************************************)
NoValue == "none"

\* Matrix( rows, cols ): the elements are value-initialised
MatrixValue(r, c) == [rows |-> r, cols |-> c, inner |-> Repeat(0, r * c)]

Throw(msg, self) == [err |-> msg, val |-> NoValue, self |-> self]

Return(val, self) == [err |-> NoValue, val |-> val, self |-> self]

\* the loops over inner[i] of +=, -=, + and -
ZipAdd(x, y) == [i \in 1..Len(x) |-> x[i] + y[i]]

ZipSub(x, y) == [i \in 1..Len(x) |-> x[i] - y[i]]

ScaleAll(x, k) == [i \in 1..Len(x) |-> x[i] * k]

Mut_opAddAssign(a, m) ==
    LET n == IF Len(a.inner) < Len(m.inner) THEN Len(a.inner) ELSE Len(m.inner)
        r == [a EXCEPT !.inner =
                 [i \in 1..Len(a.inner) |->
                     IF i <= n THEN a.inner[i] + m.inner[i] ELSE a.inner[i]]]
    IN  Return(r, r)

\* operator+=: the result is a reference to the left operand
opAddAssign(a, m) ==
    IF (a.rows # m.rows) \/ (a.cols # m.cols)
    THEN Throw("Matrix addition size mismatch", a)
    ELSE LET r == [a EXCEPT !.inner = ZipAdd(a.inner, m.inner)]
         IN  Return(r, r)

opSubAssign(a, m) ==
    IF (a.rows # m.rows) \/ (a.cols # m.cols)
    THEN Throw("Matrix subtraction size mismatch", a)
    ELSE LET r == [a EXCEPT !.inner = ZipSub(a.inner, m.inner)]
         IN  Return(r, r)

opMulAssign(a, k) ==
    LET r == [a EXCEPT !.inner = ScaleAll(a.inner, k)]
    IN  Return(r, r)

opAdd(a, m) ==
    IF (a.rows # m.rows) \/ (a.cols # m.cols)
    THEN Throw("Matrix addition size mismatch", a)
    ELSE Return([MatrixValue(a.rows, a.cols) EXCEPT
                     !.inner = ZipAdd(a.inner, m.inner)], a)

opSub(a, m) ==
    IF (a.rows # m.rows) \/ (a.cols # m.cols)
    THEN Throw("Matrix subtraction size mismatch", a)
    ELSE Return([MatrixValue(a.rows, a.cols) EXCEPT
                     !.inner = ZipSub(a.inner, m.inner)], a)

\* the element ( *this )[row][col] of an access that is inside the matrix
At(m, row, col) == m.inner[row * m.cols + col + 1]

RECURSIVE DotLoop(_, _, _, _, _)
\* sum += ( *this )[row][i] * m[i][col] for i below n
DotLoop(a, m, row, col, n) ==
    IF n = 0 THEN 0
    ELSE DotLoop(a, m, row, col, n - 1) + At(a, row, n - 1) * At(m, n - 1, col)

opMul(a, m) ==
    IF a.cols # m.rows
    THEN Throw("Matrix multiplication size mismatch", a)
    ELSE Return([rows |-> a.rows, cols |-> m.cols,
                 inner |-> [i \in 1..(a.rows * m.cols) |->
                     DotLoop(a, m, (i - 1) \div m.cols, (i - 1) % m.cols,
                             m.rows)]], a)

\* operator*( double ): a copy of the matrix, scaled
opScale(a, k) == Return([a EXCEPT !.inner = ScaleAll(a.inner, k)], a)

\* operator~: transpose[col][row] = ( *this )[row][col]
opTranspose(a) ==
    Return([rows |-> a.cols, cols |-> a.rows,
            inner |-> [i \in 1..(a.rows * a.cols) |->
                At(a, (i - 1) % a.rows, (i - 1) \div a.rows)]], a)

\* operator[]: only the row is compared with the size; the result is the
\* offset of the row's first element in inner
opIndex(m, row) ==
    IF row >= m.rows
    THEN Throw("Matrix row index out of bounds.", m)
    ELSE Return(row * m.cols, m)

\* Vector2::operator[] on the 2x1 matrix a Vector2 is
vector2Index(m, index) ==
    IF index > 2
    THEN Throw("Vector2 index out of bounds.", m)
    ELSE opIndex(m, index)

\* the std::vector a copy-constructed Matrix holds: its own (own), never
\* the one of the source (src)
Mut_copyVector(own, src) == src

copyVector(own, src) == own

\* operator= on the vectors st: the target t is cleared and resized, then
\* filled from the source s, which is the cleared vector when t = s
opAssign(st, t, s, n) ==
    LET cleared == [st EXCEPT ![t] = Repeat(0, n)]
    IN  [cleared EXCEPT ![t] =
            [i \in 1..n |-> IF i <= Len(cleared[s]) THEN cleared[s][i] ELSE 0]]

\* what the latest operator returned: nothing, an element, a new Matrix
\* or a reference to an operand
NoResult == [kind |-> "none"]

Element(v) == [kind |-> "element", elem |-> v]

Temporary(m, v) == [kind |-> "matrix", rows |-> m.rows, cols |-> m.cols,
                    inner |-> v]

RefTo(m) == [kind |-> "reference", rows |-> m.rows, cols |-> m.cols,
             inner |-> m.inner]

\* the vectors of the objects a and b and of a returned temporary
VecA == 1

VecB == 2

VecR == 3

\* two 1x1 matrices, nothing returned or thrown yet, and an empty heap
AuxInit ==
    /\ ma = [rows |-> 1, cols |-> 1, inner |-> VecA]
    /\ mb = [rows |-> 1, cols |-> 1, inner |-> VecB]
    /\ vecs = <<MatrixValue(1, 1).inner, MatrixValue(1, 1).inner, <<>>>>
    /\ mres = NoResult
    /\ merr = NoValue
    /\ heap = [x \in {} |-> <<>>]
    /\ held = <<>>
    /\ heldB = <<>>
    /\ callerShape = NULL
    /\ doubleDelete = FALSE
    /\ destroyed = FALSE
    /\ viewException = NoValue

\* the state of a fresh ShapeContainer next to a ViewContext whose
\* constructor was given the device address a for d_viewTransform
ScInit(a) ==
    /\ shapes = <<>>
    /\ d_inputShapes = NULL
    /\ d_outputShapes = NULL
    /\ d_viewTransform = a
    /\ deviceMem = [x \in {a} |-> Repeat(Indet, VERT_DIM * VERT_DIM)]
    /\ cudaLastError = "cudaSuccess"
    /\ pc = "idle"
    /\ pendingUnits = {}
    /\ overrunPending = 0
    /\ kernelFault = FALSE
    /\ unitsRun = 0
    /\ launchSnapshot = <<>>
    /\ inputShapes = <<>>
    /\ outputShapes = <<>>
    /\ parsedShapes = <<>>
    /\ mutated = FALSE
    /\ pushedCount = -1
    /\ liveTriangles = 0
    /\ AuxInit

(***************************************************************************)
(* The ViewContext under an arbitrary caller.                              *)
(***************************************************************************)
ViewInit ==
    /\ viewTranslation = DEFAULT_VIEW_TRANSLATION
    /\ viewRotation = DEFAULT_VIEW_ROTATION
    /\ viewScale = DEFAULT_VIEW_SCALE
    /\ windowWidth = 800
    /\ windowHeight = 800
    /\ drawAxis = TRUE
    /\ panActive = FALSE
    /\ orbitActive = FALSE
    /\ mouseStartPos = <<0, 0>>
    /\ lastMouseDelta = <<0, 0>>
    /\ updateWidth = 800
    /\ updateHeight = 800
    /\ transform = UpdateTransform(DEFAULT_VIEW_TRANSLATION,
                                   DEFAULT_VIEW_ROTATION, DEFAULT_VIEW_SCALE,
                                   800, 800)
    /\ invTransform = UpdateInvTransform(DEFAULT_VIEW_TRANSLATION,
                                         DEFAULT_VIEW_ROTATION,
                                         DEFAULT_VIEW_SCALE, 800, 800)

InTransRange(t) == \A i \in 1..3 : Abs(t[i][1]) <= 4 * MaxTrans * t[i][2]

InScaleRange(s) == \A i \in 1..3 : Abs(s[i][1]) <= MaxScale /\ s[i][2] = 1

SetTranslation ==
    \E a \in TransArgs :
        /\ setTranslation(a[1], a[2], a[3])
        /\ UNCHANGED nonViewVars

Translate ==
    \E a \in TransArgs :
        /\ translate(a[1], a[2], a[3])
        /\ InTransRange(viewTranslation')
        /\ UNCHANGED nonViewVars

SetRotation ==
    \E a \in RotPairs :
        /\ setRotation(a[1], a[2])
        /\ UNCHANGED nonViewVars

Rotate ==
    \E a \in RotDeltas :
        /\ rotate(a[1], a[2])
        /\ UNCHANGED nonViewVars

SetScale ==
    \E a \in ScaleArgs :
        /\ setScale(a[1], a[2], a[3])
        /\ UNCHANGED nonViewVars

Scale ==
    \E a \in ScaleFactors :
        /\ InScaleRange(<<RMul(viewScale[1], a[1]), RMul(viewScale[2], a[2]),
                           RMul(viewScale[3], a[3])>>)
        /\ scale(a[1], a[2], a[3])
        /\ UNCHANGED nonViewVars

ResetTranslation == resetTranslation /\ UNCHANGED nonViewVars

ResetRotation == resetRotation /\ UNCHANGED nonViewVars

ResetScale == resetScale /\ UNCHANGED nonViewVars

ResetView == resetView /\ UNCHANGED nonViewVars

Update ==
    /\ update(viewTranslation, viewRotation, viewScale)
    /\ UNCHANGED <<viewTranslation, viewRotation, viewScale, nonViewVars>>

\* the user resizes the window; the matrices are not rebuilt until update()
Resize ==
    \E sz \in WindowSizes :
        /\ windowWidth' = sz[1]
        /\ windowHeight' = sz[2]
        /\ UNCHANGED <<drawAxis, mouseVars, auxVars>>
        /\ UNCHANGED <<viewVars, scVars, deviceVars, pc>>

ViewNext ==
    \/ SetTranslation
    \/ Translate
    \/ SetRotation
    \/ Rotate
    \/ SetScale
    \/ Scale
    \/ ResetTranslation
    \/ ResetRotation
    \/ ResetScale
    \/ ResetView
    \/ Update
    \/ Resize

\* a ViewContext whose owner leaves the container alone
InitView ==
    /\ ViewInit
    /\ ScInit(1)

SpecView == InitView /\ [][ViewNext]_vars

(***************************************************************************)
(* Properties of the ViewContext.                                          *)
(***************************************************************************)
\* model points the conversions are tried on
TestPoints ==
    {<<R(0), R(0), R(0)>>, <<R(1), R(0), R(0)>>, <<R(1), R(2), R(3)>>,
     <<Rat(-1, 2), R(7), Rat(5, 3)>>}

\* C2: whatever the (nonzero-scale) view parameters and the window size,
\* deviceToModel(modelToDevice(p)) = p for every point p, and the forward
\* and inverse matrices built by update() multiply to the identity.
C2_RoundTrip ==
    /\ \A p \in TestPoints : deviceToModel(modelToDevice(p)) = p
    /\ MatMul(invTransform, transform) = Identity4
    /\ MatMul(transform, invTransform) = Identity4

\* a view with translation, both rotations, an uneven scale and a window
\* that is not square, whose matrices were built for that window
C2_Witness ==
    /\ viewTranslation = <<R(1), R(-1), R(2)>>
    /\ viewRotation = <<1, 3>>
    /\ viewScale = <<R(50), R(-25), R(3)>>
    /\ updateWidth = 641
    /\ updateHeight = 480

\* C9: with the default parameters and matrices built for a window of
\* 800x800, modelToDevice maps (0,0,0) to (400,400,0) and (1,0,0) to
\* (500,400,0).
C9_DefaultTransform ==
    (/\ viewTranslation = DEFAULT_VIEW_TRANSLATION
     /\ viewRotation = DEFAULT_VIEW_ROTATION
     /\ viewScale = DEFAULT_VIEW_SCALE
     /\ updateWidth = 800
     /\ updateHeight = 800)
    => /\ modelToDevice(<<R(0), R(0), R(0)>>) = <<R(400), R(400), R(0)>>
       /\ modelToDevice(<<R(1), R(0), R(0)>>) = <<R(500), R(400), R(0)>>

\* the defaults restored (here while the window has another size) after
\* the view had been changed
C9_Witness ==
    /\ viewTranslation = DEFAULT_VIEW_TRANSLATION
    /\ viewRotation = DEFAULT_VIEW_ROTATION
    /\ viewScale = DEFAULT_VIEW_SCALE
    /\ updateWidth = 800
    /\ updateHeight = 800
    /\ windowWidth = 641
    /\ modelToDevice(<<R(1), R(0), R(0)>>) = <<R(500), R(400), R(0)>>

\* C10: both stored rotation angles r satisfy 0 <= r < 2*pi after
\* construction and after every setRotation, rotate, resetRotation and
\* resetView.
C10_RotationNormalized ==
    \A i \in 1..2 : 0 <= viewRotation[i] /\ viewRotation[i] < TWO_PI

\* the angle pair a reduced modulo 2*pi
ReducedRotation(a) == <<a[1] % TWO_PI, a[2] % TWO_PI>>

C12_MatricesOfParameters ==
    /\ transform = UpdateTransform(viewTranslation, viewRotation, viewScale,
                                   updateWidth, updateHeight)
    /\ invTransform = UpdateInvTransform(viewTranslation, viewRotation,
                                         viewScale, updateWidth, updateHeight)

\* C12, in every step: a step that changes a parameter or a matrix has
\* recomputed for the window size of that moment, and a resize by itself
\* changes neither matrix.
C12_ResizeAtRecomputation ==
    /\ viewVars' # viewVars =>
          /\ updateWidth' = windowWidth
          /\ updateHeight' = windowHeight
    /\ <<windowWidth, windowHeight>>' # <<windowWidth, windowHeight>> =>
          UNCHANGED <<transform, invTransform>>

\* C12: after the constructor and after every mutating operation of
\* ViewContext both matrices are the documented products of the current
\* parameters and of the window size reported at that recomputation; no
\* operation leaves a matrix stale, and a resize takes effect at the next
\* recomputation.
C12_NeverStale ==
    [](C12_MatricesOfParameters) /\ [][C12_ResizeAtRecomputation]_vars

\* the window went to 641x480, an operation recomputed, and the window
\* went back to 800x800 with no recomputation since
C12_Witness ==
    /\ viewTranslation = <<R(1), R(-1), R(2)>>
    /\ updateWidth = 641
    /\ updateHeight = 480
    /\ windowWidth = 800
    /\ windowHeight = 800
    /\ transform = UpdateTransform(viewTranslation, viewRotation, viewScale,
                                   641, 480)

\* the matrices of a ViewContext constructed on a window of the size the
\* window has now
FreshTransform ==
    UpdateTransform(DEFAULT_VIEW_TRANSLATION, DEFAULT_VIEW_ROTATION,
                    DEFAULT_VIEW_SCALE, windowWidth, windowHeight)

FreshInvTransform ==
    UpdateInvTransform(DEFAULT_VIEW_TRANSLATION, DEFAULT_VIEW_ROTATION,
                       DEFAULT_VIEW_SCALE, windowWidth, windowHeight)

C17_Step ==
    /\ ResetView =>
           /\ viewTranslation' = <<R(0), R(0), R(0)>>
           /\ viewRotation' = <<0, 0>>
           /\ viewScale' = <<R(100), R(100), R(100)>>
           /\ transform' = FreshTransform
           /\ invTransform' = FreshInvTransform
    /\ ResetTranslation =>
           /\ viewTranslation' = <<R(0), R(0), R(0)>>
           /\ UNCHANGED <<viewRotation, viewScale>>
    /\ ResetRotation =>
           /\ viewRotation' = <<0, 0>>
           /\ UNCHANGED <<viewTranslation, viewScale>>
    /\ ResetScale =>
           /\ viewScale' = <<R(100), R(100), R(100)>>
           /\ UNCHANGED <<viewTranslation, viewRotation>>

\* C17: resetView leaves translation (0,0,0), rotation (0,0) and scale
\* (100,100,100) with both matrices those of a ViewContext freshly
\* constructed on the same window; resetTranslation, resetRotation and
\* resetScale each restore their own group and leave the other two.
C17_Resets == [][C17_Step]_vars

\* the view was reset after the window had been resized
C17_Witness ==
    /\ viewTranslation = <<R(0), R(0), R(0)>>
    /\ viewRotation = <<0, 0>>
    /\ viewScale = <<R(100), R(100), R(100)>>
    /\ windowWidth = 641
    /\ updateWidth = 641
    /\ transform = FreshTransform
    /\ invTransform = FreshInvTransform

\* the scale triples the inverse is looked at for: the stored one and the
\* arguments of setScale and scale
ScaleTriples == {viewScale} \cup ScaleArgs \cup ScaleFactors

\* C22: for a scale triple (sx, sy, sz) without a zero the inverse
\* view-scale matrix is diagonal with diagonal (1/sx, 1/sy, 1/sz, 1), and
\* ViewScale * InvViewScale is the identity.
C22_InverseScale ==
    \A s \in ScaleTriples :
        (\A i \in 1..3 : s[i] # R(0)) =>
            /\ \A i \in 1..4, j \in 1..4 :
                   genInvViewScaleMatrix(s)[i][j] =
                       IF i # j THEN R(0)
                       ELSE IF i = 4 THEN R(1) ELSE RDiv(R(1), s[i])
            /\ MatMul(genViewScaleMatrix(s), genInvViewScaleMatrix(s)) = Identity4

\* setScale( 50, -25, 3 ) has rebuilt the inverse transform
C22_Witness ==
    /\ viewScale = <<R(50), R(-25), R(3)>>
    /\ genInvViewScaleMatrix(viewScale)[2][2] = Rat(-1, 25)
    /\ invTransform = UpdateInvTransform(viewTranslation, viewRotation,
                                         viewScale, updateWidth, updateHeight)

\* each clause is written as its contrapositive: a step that does not
\* give the stated result is not a step of the operation
C23_Deltas ==
    /\ \A a \in TransArgs :
           viewTranslation' # <<RAdd(viewTranslation[1], a[1]),
                                RAdd(viewTranslation[2], a[2]),
                                RAdd(viewTranslation[3], a[3])>>
               => ~(translate(a[1], a[2], a[3]) /\ UNCHANGED nonViewVars)
    /\ \A a \in RotDeltas :
           viewRotation' # <<NormalizeRotation(viewRotation[1] + a[1]),
                             NormalizeRotation(viewRotation[2] + a[2])>>
               => ~(rotate(a[1], a[2]) /\ UNCHANGED nonViewVars)
    /\ \A a \in ScaleFactors :
           viewScale' # <<RMul(viewScale[1], a[1]),
                          RMul(viewScale[2], a[2]),
                          RMul(viewScale[3], a[3])>>
               => ~(scale(a[1], a[2], a[3]) /\ UNCHANGED nonViewVars)

C23_Groups ==
    /\ <<viewRotation, viewScale>>' # <<viewRotation, viewScale>>
           => ~(SetTranslation \/ Translate \/ ResetTranslation)
    /\ <<viewTranslation, viewScale>>' # <<viewTranslation, viewScale>>
           => ~(SetRotation \/ Rotate \/ ResetRotation)
    /\ <<viewTranslation, viewRotation>>' # <<viewTranslation, viewRotation>>
           => ~(SetScale \/ Scale \/ ResetScale)

MaxPan == 1

\* the C remainder a % n, which has the sign of a
CRem(a, n) == IF a >= 0 THEN a % n ELSE -((-a) % n)

\* ( ( int ) ( rotation / M_PI_2 ) ) % 4
Quadrant(rotation) == CRem(rotation, 4)

\* tan at q quarter turns
QTan(q) == IF q % 2 = 0 THEN R(0) ELSE Indet

\* sin( atan( y / x ) ) for y and x in {0, 1}, not both 0
SinAtan(y, x) ==
    IF x = R(0) THEN R(1) ELSE IF y = R(0) THEN R(0) ELSE Indet

\* Point3D( 0, 0, 1 ).transform( genInvViewRotationMatrix() )
getLookVector(rot) ==
    PointTransform(<<R(0), R(0), R(1)>>, genInvViewRotationMatrix(rot))

\* the arguments panX gives to translate
panXTranslation(rotationY, magnitude) ==
    LET quadrant == Quadrant(rotationY)
        axisRotation == rotationY - quadrant
        oppAdjRatio == QTan(axisRotation)
        signX == IF quadrant \in {0, 3} THEN R(1) ELSE R(-1)
        signZ == IF quadrant \in {0, 1} THEN R(1) ELSE R(-1)
        translateX == IF quadrant \in {0, 2} THEN R(1) ELSE oppAdjRatio
        translateZ == IF quadrant \in {0, 2} THEN oppAdjRatio ELSE R(1)
    IN  <<RMul(RMul(signX, magnitude), SinAtan(translateX, translateZ)),
          R(0),
          RMul(RMul(signZ, magnitude), SinAtan(translateZ, translateX))>>

\* the arguments panY gives to translate
panYTranslation(rot, magnitude) ==
    LET quadrant == Quadrant(rot[1])
        axisRotation == rot[1] - quadrant
        oppAdjRatio == QTan(axisRotation)
        signY == IF quadrant = 1 THEN R(-1) ELSE R(1)
        translateY == IF quadrant \in {0, 2} THEN R(1) ELSE oppAdjRatio
        translateN == IF quadrant \in {0, 2} THEN oppAdjRatio ELSE R(1)
        lookTarget == getLookVector(rot)
    IN  <<RMul(RMul(R(-1), magnitude), lookTarget[1]),
          RMul(RMul(signY, magnitude), SinAtan(translateY, translateN)),
          RMul(RMul(R(-1), magnitude), lookTarget[3])>>

\* the default branch of the switch on the quadrant
throwIllegalQuadrant ==
    /\ viewException' = "Illegal view quadrant."
    /\ UNCHANGED <<viewVars, uiVars, scVars, deviceVars, pc, matVars,
                   heapVars>>

PanArgs == {R(-1), R(1)}

InPanRange(t) == \A i \in 1..3 : Abs(t[i][1]) <= MaxPan * t[i][2]

panX(magnitude) ==
    IF Quadrant(viewRotation[2]) \notin 0..3 THEN throwIllegalQuadrant
    ELSE LET d == panXTranslation(viewRotation[2], magnitude)
         IN  /\ translate(d[1], d[2], d[3])
             /\ UNCHANGED nonViewVars

panY(magnitude) ==
    IF Quadrant(viewRotation[1]) \notin 0..3 THEN throwIllegalQuadrant
    ELSE LET d == panYTranslation(viewRotation, magnitude)
         IN  /\ translate(d[1], d[2], d[3])
             /\ UNCHANGED nonViewVars

\* pan( x, y ): panX( x ), then panY( y ) unless panX threw
pan(x, y) ==
    IF Quadrant(viewRotation[2]) \notin 0..3 THEN throwIllegalQuadrant
    ELSE LET dx == panXTranslation(viewRotation[2], x)
             dy == panYTranslation(viewRotation, y)
         IN  IF Quadrant(viewRotation[1]) \notin 0..3
             THEN /\ viewException' = "Illegal view quadrant."
                  /\ translate(dx[1], dx[2], dx[3])
                  /\ UNCHANGED <<uiVars, scVars, deviceVars, pc, matVars,
                                 heapVars>>
             ELSE /\ translate(RAdd(dx[1], dy[1]), RAdd(dx[2], dy[2]),
                               RAdd(dx[3], dy[3]))
                  /\ UNCHANGED nonViewVars

\* pan( m, 0 ) moves by what panX( m ) gives alone
PanX ==
    \E m \in PanArgs :
        /\ viewException = NoValue
        /\ panX(m)
        /\ InPanRange(viewTranslation')

\* pan( 0, m ) moves by what panY( m ) gives alone
PanY ==
    \E m \in PanArgs :
        /\ viewException = NoValue
        /\ panY(m)
        /\ InPanRange(viewTranslation')

Pan ==
    \E x \in PanArgs, y \in PanArgs :
        /\ viewException = NoValue
        /\ pan(x, y)
        /\ InPanRange(viewTranslation')

PanNext ==
    \/ SetRotation
    \/ Rotate
    \/ ResetView
    \/ PanX
    \/ PanY
    \/ Pan

SpecPan == InitView /\ [][PanNext]_vars

\* C18: for every rotation state reachable through the public operations
\* the quadrant panX and panY compute is one of 0, 1, 2, 3, and no pan has
\* raised 'Illegal view quadrant'.
C18_QuadrantLegal ==
    /\ Quadrant(viewRotation[1]) \in 0..3
    /\ Quadrant(viewRotation[2]) \in 0..3
    /\ viewException = NoValue

\* panX( 1 ) with the stored rotation <<2 * M_PI, 3 * M_PI_2>>
C18_Witness ==
    /\ viewRotation = <<TWO_PI, 3>>
    /\ viewTranslation = <<R(0), R(0), R(-1)>>
    /\ viewException = NoValue

\* the square of the length of the change of the view translation
SquaredPanDistance ==
    LET dx == RAdd(viewTranslation'[1], RNeg(viewTranslation[1]))
        dy == RAdd(viewTranslation'[2], RNeg(viewTranslation[2]))
        dz == RAdd(viewTranslation'[3], RNeg(viewTranslation[3]))
    IN  RAdd(RAdd(RMul(dx, dx), RMul(dy, dy)), RMul(dz, dz))

\* panX( m ) moves the translation by a vector of length |m|
C19_PanXStep ==
    \A m \in PanArgs :
        (viewException = NoValue /\ panX(m)) =>
            SquaredPanDistance = RMul(m, m)

\* panY( m ) moves the translation by a vector of length |m|
C19_PanYStep ==
    \A m \in PanArgs :
        (viewException = NoValue /\ panY(m)) =>
            SquaredPanDistance = RMul(m, m)

\* C19: for every rotation state (here the multiples of pi/2) and pan
\* distance m, panX( m ) and panY( m ) each change the view translation by
\* a vector of magnitude |m|.
C19_PanMagnitude == [][C19_PanXStep /\ C19_PanYStep]_vars

(***************************************************************************)
(* The Matrix operators applied to the two objects a and b.                *)
(***************************************************************************)
MaxElem == 1

\* the shapes the objects are constructed with; 2x1 is the shape of Vector2
MatShapes == {<<1, 1>>, <<1, 2>>, <<2, 1>>}

Indices == 0..2

Scalars == 0..2

InElemRange(x) == \A i \in 1..Len(x) : x[i] \in 0..MaxElem

\* the value of an object
ViewOf(m) == [rows |-> m.rows, cols |-> m.cols, inner |-> vecs[m.inner]]

nonMatVars == <<viewVars, uiVars, scVars, deviceVars, pc, heapVars, viewException>>

\* the process has not been killed by the system
MatRunning == merr # "SIGSEGV"

\* Matrix a( rows, cols ) or Matrix b( rows, cols )
MatConstruct ==
    /\ MatRunning
    /\ \E sh \in MatShapes, which \in {VecA, VecB} :
        /\ ma' = IF which = VecA
                 THEN [rows |-> sh[1], cols |-> sh[2], inner |-> VecA] ELSE ma
        /\ mb' = IF which = VecB
                 THEN [rows |-> sh[1], cols |-> sh[2], inner |-> VecB] ELSE mb
        /\ vecs' = [vecs EXCEPT ![which] = MatrixValue(sh[1], sh[2]).inner,
                                ![VecR] = <<>>]
    /\ mres' = NoResult
    /\ merr' = NoValue
    /\ UNCHANGED nonMatVars

\* m[row][col] = v: operator[] yields the row's offset, to which the
\* built-in [] adds col; an offset past the vector is undefined behaviour,
\* a store the program does not see or a fault
MatWriteAt(m, row, col, v) ==
    LET r == opIndex(ViewOf(m), row)
    IN  /\ MatRunning
        /\ mres' = NoResult
        /\ UNCHANGED <<ma, mb, nonMatVars>>
        /\ IF r.err # NoValue
           THEN /\ merr' = r.err
                /\ vecs' = [vecs EXCEPT ![VecR] = <<>>]
           ELSE IF r.val + col < Len(vecs[m.inner])
                THEN /\ merr' = NoValue
                     /\ vecs' = [vecs EXCEPT ![m.inner][r.val + col + 1] = v,
                                             ![VecR] = <<>>]
                ELSE /\ merr' \in {NoValue, "SIGSEGV"}
                     /\ vecs' = [vecs EXCEPT ![VecR] = <<>>]

MatWrite ==
    \E m \in {ma, mb}, row \in Indices, col \in Indices, v \in 0..MaxElem :
        MatWriteAt(m, row, col, v)

\* m[row][col] read; past the vector the value read is indeterminate
MatReadAt(m, row, col) ==
    LET r == opIndex(ViewOf(m), row)
    IN  /\ MatRunning
        /\ vecs' = [vecs EXCEPT ![VecR] = <<>>]
        /\ UNCHANGED <<ma, mb, nonMatVars>>
        /\ IF r.err # NoValue
           THEN /\ merr' = r.err
                /\ mres' = NoResult
           ELSE IF r.val + col < Len(vecs[m.inner])
                THEN /\ merr' = NoValue
                     /\ mres' = Element(vecs[m.inner][r.val + col + 1])
                ELSE \/ /\ merr' = NoValue
                        /\ mres' \in {Element(e) : e \in 0..MaxElem}
                     \/ /\ merr' = "SIGSEGV"
                        /\ mres' = NoResult

MatRead == \E m \in {ma, mb}, row \in Indices, col \in Indices :
               MatReadAt(m, row, col)

\* v[index] of the Vector2 that a 2x1 matrix a is
VecReadAt(index) ==
    LET r == vector2Index(ViewOf(ma), index)
    IN  /\ MatRunning
        /\ ma.rows = 2 /\ ma.cols = 1
        /\ vecs' = [vecs EXCEPT ![VecR] = <<>>]
        /\ UNCHANGED <<ma, mb, nonMatVars>>
        /\ merr' = r.err
        /\ mres' = IF r.err # NoValue THEN NoResult
                   ELSE Element(vecs[ma.inner][r.val + 1])

VecRead == \E index \in 0..3 : VecReadAt(index)

\* the outcome r of an operator of a: the exception, or the left operand
\* as the operator left it and the returned reference or temporary
MatApply(r, byReference) ==
    /\ MatRunning
    /\ InElemRange(r.self.inner)
    /\ r.err = NoValue /\ ~byReference => InElemRange(r.val.inner)
    /\ merr' = r.err
    /\ mres' = IF r.err # NoValue THEN NoResult
               ELSE IF byReference THEN RefTo(ma)
               ELSE Temporary(r.val, VecR)
    /\ vecs' = [[vecs EXCEPT ![VecR] = IF r.err = NoValue /\ ~byReference
                                       THEN r.val.inner ELSE <<>>]
                    EXCEPT ![ma.inner] = r.self.inner]
    /\ UNCHANGED <<ma, mb, nonMatVars>>

\* a += b
MatAddAssign == MatApply(opAddAssign(ViewOf(ma), ViewOf(mb)), TRUE)

\* a -= b
MatSubAssign == MatApply(opSubAssign(ViewOf(ma), ViewOf(mb)), TRUE)

\* a *= s
MatMulAssign == \E k \in Scalars : MatApply(opMulAssign(ViewOf(ma), k), TRUE)

\* a + b
MatAdd == MatApply(opAdd(ViewOf(ma), ViewOf(mb)), FALSE)

\* a - b
MatSub == MatApply(opSub(ViewOf(ma), ViewOf(mb)), FALSE)

\* a * b
MatTimes == MatApply(opMul(ViewOf(ma), ViewOf(mb)), FALSE)

\* a * s
MatScale == \E k \in Scalars : MatApply(opScale(ViewOf(ma), k), FALSE)

\* ~a
MatTilde == MatApply(opTranspose(ViewOf(ma)), FALSE)

\* Matrix b( a ): b is constructed anew as a copy of a
MatCopy ==
    /\ MatRunning
    /\ mb' = [rows |-> ma.rows, cols |-> ma.cols,
              inner |-> copyVector(VecB, ma.inner)]
    /\ vecs' = [vecs EXCEPT ![VecB] = vecs[ma.inner], ![VecR] = <<>>]
    /\ mres' = NoResult
    /\ merr' = NoValue
    /\ UNCHANGED <<ma, nonMatVars>>

\* b = a
MatAssign ==
    /\ MatRunning
    /\ mb' = [mb EXCEPT !.rows = ma.rows, !.cols = ma.cols]
    /\ vecs' = [opAssign(vecs, mb.inner, ma.inner, ma.rows * ma.cols)
                    EXCEPT ![VecR] = <<>>]
    /\ mres' = RefTo(mb')
    /\ merr' = NoValue
    /\ UNCHANGED <<ma, nonMatVars>>

\* a = a
MatSelfAssign ==
    /\ MatRunning
    /\ vecs' = [opAssign(vecs, ma.inner, ma.inner, ma.rows * ma.cols)
                    EXCEPT ![VecR] = <<>>]
    /\ mres' = RefTo(ma)
    /\ merr' = NoValue
    /\ UNCHANGED <<ma, mb, nonMatVars>>

MatrixNext ==
    \/ MatConstruct
    \/ MatWrite
    \/ MatRead
    \/ VecRead
    \/ MatAddAssign
    \/ MatSubAssign
    \/ MatMulAssign
    \/ MatAdd
    \/ MatSub
    \/ MatTimes
    \/ MatScale
    \/ MatTilde
    \/ MatCopy
    \/ MatAssign
    \/ MatSelfAssign

SpecMatrix == InitView /\ [][MatrixNext]_vars

ShapeMismatch == (ma.rows # mb.rows) \/ (ma.cols # mb.cols)

\* the operator threw msg: nothing is returned and both operands are as
\* they were
Raised(msg) ==
    /\ merr' = msg
    /\ mres' = NoResult
    /\ ViewOf(ma)' = ViewOf(ma)
    /\ ViewOf(mb)' = ViewOf(mb)

C13_Step ==
    /\ ShapeMismatch /\ (MatAdd \/ MatAddAssign)
           => Raised("Matrix addition size mismatch")
    /\ ShapeMismatch /\ (MatSub \/ MatSubAssign)
           => Raised("Matrix subtraction size mismatch")
    /\ (ma.cols # mb.rows) /\ MatTimes
           => Raised("Matrix multiplication size mismatch")

\* C13: +, -, += and -= on operands of different shape, and * with
\* lhs.cols # rhs.rows, raise the dimension-mismatch error and return no
\* result; when += or -= raises, the left operand is unchanged.
C13_MismatchRaises == [][C13_Step]_vars

\* a 1x2 matrix of ones was added to a 2x1 matrix
C13_Witness ==
    /\ merr = "Matrix addition size mismatch"
    /\ ViewOf(ma) = [rows |-> 1, cols |-> 2, inner |-> <<1, 1>>]
    /\ mb.rows = 2 /\ mb.cols = 1

OutOfRange(m, row, col) == (row >= m.rows) \/ (col >= m.cols)

BoundsErrors == {"Matrix row index out of bounds.",
                 "Vector2 index out of bounds."}

C14_Step ==
    /\ \A m \in {ma, mb}, row \in Indices, col \in Indices :
           /\ OutOfRange(m, row, col)
           /\ \/ MatReadAt(m, row, col)
              \/ \E v \in 0..MaxElem : MatWriteAt(m, row, col, v)
           => merr' \in BoundsErrors
    /\ \A index \in 0..3 :
           (index >= 2) /\ VecReadAt(index) => merr' \in BoundsErrors

\* C14: an element access with row >= rows or column >= cols raises a
\* bounds error instead of reading or writing another element or memory
\* outside the matrix, and so does a Vector2 access with index >= 2.
C14_BoundsChecked == [][C14_Step]_vars

InRangeWriteTo(m) ==
    \E row \in Indices, col \in Indices, v \in 0..MaxElem :
        ~OutOfRange(m, row, col) /\ MatWriteAt(m, row, col, v)

C15_Step ==
    /\ (MatAdd \/ MatSub \/ MatTimes \/ MatScale \/ MatTilde)
           => /\ ViewOf(ma)' = ViewOf(ma)
              /\ ViewOf(mb)' = ViewOf(mb)
              /\ merr' = NoValue
                     => /\ mres'.kind = "matrix"
                        /\ mres'.inner \notin {ma.inner, mb.inner}
    /\ (MatAddAssign \/ MatSubAssign \/ MatMulAssign)
           => /\ ViewOf(mb)' = ViewOf(mb)
              /\ merr' = NoValue => mres' = RefTo(ma)
    /\ (MatCopy \/ MatAssign)
           => /\ ViewOf(mb)' = ViewOf(ma)
              /\ ViewOf(ma)' = ViewOf(ma)
              /\ mb'.inner # ma'.inner
    /\ InRangeWriteTo(ma) => ViewOf(mb)' = ViewOf(mb)
    /\ InRangeWriteTo(mb) => ViewOf(ma)' = ViewOf(ma)

\* C15: +, -, * (by a matrix and by a scalar) and ~ return a new value and
\* leave both operands unchanged; +=, -= and *= change only the left
\* operand and return a reference to it; a matrix obtained by copy or
\* assignment shares no state with its source.
C15_ValueSemantics == [](ma.inner # mb.inner) /\ [][C15_Step]_vars

\* a += b changed a and returned it, and b is as it was
C15_Witness ==
    /\ mres = RefTo(ma)
    /\ merr = NoValue
    /\ ViewOf(ma) = [rows |-> 1, cols |-> 2, inner |-> <<1, 1>>]
    /\ ViewOf(mb) = [rows |-> 1, cols |-> 2, inner |-> <<1, 0>>]

(***************************************************************************)
(* ShapeContainer::pushToDevice, one step per device call.                 *)
(***************************************************************************)
\* HANDLE_CUDA_ERROR on a status that is not cudaSuccess: the status is
\* printed and the process exits, which releases its device memory
HandleCUDAError(err) ==
    /\ cudaLastError' = err
    /\ pc' = "exited"
    /\ deviceMem' = [x \in {} |-> <<>>]

\* shapes.size() * SHAPE_DIM * VERT_DIM, the element count of each buffer
Mut_BufferSize(n) == (n + 1) * SHAPE_DIM * VERT_DIM

BufferSize(n) == n * SHAPE_DIM * VERT_DIM

\* the addresses cudaMalloc can return
FreeAddrs == DeviceAddrs \ DOMAIN deviceMem

\* the pack loops, then cudaFree( d_inputShapes ) if it is not null
PushToDevice ==
    /\ pc = "idle"
    /\ inputShapes' = PackShapes(shapes)
    /\ \E ok \in BOOLEAN :
        IF d_inputShapes = NULL
        THEN /\ ok
             /\ pc' = "push_free_out"
             /\ UNCHANGED <<deviceMem, cudaLastError>>
        ELSE IF ok /\ d_inputShapes \in DOMAIN deviceMem
        THEN /\ deviceMem' = DeviceFree(deviceMem, d_inputShapes)
             /\ pc' = "push_free_out"
             /\ UNCHANGED cudaLastError
        ELSE /\ HandleCUDAError("cudaErrorInvalidValue")
    /\ UNCHANGED <<viewVars, uiVars, auxVars, shapes, d_inputShapes, d_outputShapes,
                   outputShapes, parsedShapes, mutated, pushedCount, liveTriangles,
                   d_viewTransform, pendingUnits, overrunPending, kernelFault,
                   unitsRun, launchSnapshot>>

\* cudaFree( d_outputShapes ) if it is not null
PushFreeOut ==
    /\ pc = "push_free_out"
    /\ \E ok \in BOOLEAN :
        IF d_outputShapes = NULL
        THEN /\ ok
             /\ pc' = "push_malloc_in"
             /\ UNCHANGED <<deviceMem, cudaLastError>>
        ELSE IF ok /\ d_outputShapes \in DOMAIN deviceMem
        THEN /\ deviceMem' = DeviceFree(deviceMem, d_outputShapes)
             /\ pc' = "push_malloc_in"
             /\ UNCHANGED cudaLastError
        ELSE /\ HandleCUDAError("cudaErrorInvalidValue")
    /\ UNCHANGED <<viewVars, uiVars, auxVars, scVars, d_viewTransform, pendingUnits,
                   overrunPending, kernelFault, unitsRun, launchSnapshot>>

\* cudaMalloc( &d_inputShapes, ... ): a request of zero bytes succeeds
\* with the null pointer
PushMallocIn ==
    /\ pc = "push_malloc_in"
    /\ \/ /\ BufferSize(Len(shapes)) = 0
          /\ d_inputShapes' = NULL
          /\ pc' = "push_malloc_out"
          /\ UNCHANGED <<deviceMem, cudaLastError>>
       \/ /\ BufferSize(Len(shapes)) > 0
          /\ \E a \in FreeAddrs :
                /\ d_inputShapes' = a
                /\ deviceMem' = DeviceAlloc(deviceMem, a, BufferSize(Len(shapes)))
          /\ pc' = "push_malloc_out"
          /\ UNCHANGED cudaLastError
       \/ /\ HandleCUDAError("cudaErrorMemoryAllocation")
          /\ UNCHANGED d_inputShapes
    /\ UNCHANGED <<viewVars, uiVars, auxVars, shapes, d_outputShapes, inputShapes,
                   outputShapes, parsedShapes, mutated, pushedCount, liveTriangles,
                   d_viewTransform, pendingUnits, overrunPending, kernelFault,
                   unitsRun, launchSnapshot>>

\* cudaMalloc( &d_outputShapes, ... )
PushMallocOut ==
    /\ pc = "push_malloc_out"
    /\ \/ /\ BufferSize(Len(shapes)) = 0
          /\ d_outputShapes' = NULL
          /\ pc' = "push_copy"
          /\ UNCHANGED <<deviceMem, cudaLastError>>
       \/ /\ BufferSize(Len(shapes)) > 0
          /\ \E a \in FreeAddrs :
                /\ d_outputShapes' = a
                /\ deviceMem' = DeviceAlloc(deviceMem, a, BufferSize(Len(shapes)))
          /\ pc' = "push_copy"
          /\ UNCHANGED cudaLastError
       \/ /\ HandleCUDAError("cudaErrorMemoryAllocation")
          /\ UNCHANGED d_outputShapes
    /\ UNCHANGED <<viewVars, uiVars, auxVars, shapes, d_inputShapes, inputShapes,
                   outputShapes, parsedShapes, mutated, pushedCount, liveTriangles,
                   d_viewTransform, pendingUnits, overrunPending, kernelFault,
                   unitsRun, launchSnapshot>>

\* the first Len(src) elements of a device buffer overwritten from the host
DeviceWrite(buf, src) ==
    [k \in 1..Len(buf) |-> IF k <= Len(src) THEN src[k] ELSE buf[k]]

\* cudaMemcpy( d_inputShapes, inputShapes, ..., cudaMemcpyHostToDevice ),
\* then the return
PushCopy ==
    /\ pc = "push_copy"
    /\ \/ /\ IF Len(inputShapes) = 0
             THEN UNCHANGED deviceMem
             ELSE /\ d_inputShapes \in DOMAIN deviceMem
                  /\ deviceMem' = [deviceMem EXCEPT ![d_inputShapes] =
                                      DeviceWrite(@, inputShapes)]
          /\ pc' = "idle"
          /\ inputShapes' = <<>>
          /\ mutated' = FALSE
          /\ pushedCount' = Len(shapes)
          /\ UNCHANGED <<cudaLastError, liveTriangles>>
       \/ /\ HandleCUDAError("cudaErrorInvalidValue")
          /\ UNCHANGED <<inputShapes, mutated, pushedCount, liveTriangles>>
    /\ UNCHANGED <<viewVars, uiVars, auxVars, shapes, d_inputShapes, d_outputShapes,
                   outputShapes, parsedShapes, d_viewTransform, pendingUnits,
                   overrunPending, kernelFault, unitsRun, launchSnapshot>>

(***************************************************************************)
(* ShapeContainer::draw, one step per device call, and the kernel, one     *)
(* step per work unit.                                                     *)
(***************************************************************************)
\* the copy of ViewContext::transform to the local array and the
\* cudaMemcpy of it to d_viewTransform; tr is the transform at the call
drawBegin(tr) ==
    /\ \/ /\ deviceMem' = [deviceMem EXCEPT ![d_viewTransform] =
                              FlattenTransform(tr)]
          /\ pc' = "draw_memset"
          /\ UNCHANGED cudaLastError
       \/ /\ HandleCUDAError("cudaErrorInvalidValue")
    /\ UNCHANGED <<d_inputShapes, d_outputShapes, inputShapes, outputShapes,
                   parsedShapes, mutated, pushedCount, liveTriangles, d_viewTransform,
                   pendingUnits, overrunPending, kernelFault, unitsRun,
                   launchSnapshot>>

\* sc.draw( gc, vc ) called by the owner of the container, as long as the
\* Triangle objects it makes stay within the bound of the model
Draw ==
    /\ pc = "idle"
    /\ liveTriangles + Len(shapes) <= MaxLive
    /\ drawBegin(transform)
    /\ UNCHANGED <<viewVars, uiVars, auxVars, shapes>>

\* cudaMemset( d_outputShapes, 0, ... ): nothing to do for zero bytes, an
\* error for a pointer that is no allocation, and for a buffer shorter
\* than the request either an error or a write beyond the buffer
DrawMemset ==
    /\ pc = "draw_memset"
    /\ LET n == BufferSize(Len(shapes))
           cap == Capacity(deviceMem, d_outputShapes)
       IN  \/ /\ n = 0
              /\ pc' = "draw_launch"
              /\ UNCHANGED <<deviceMem, cudaLastError>>
           \/ /\ 0 < n
              /\ n <= cap
              /\ deviceMem' = [deviceMem EXCEPT ![d_outputShapes] =
                                  DeviceZero(@, n)]
              /\ pc' = "draw_launch"
              /\ UNCHANGED cudaLastError
           \/ /\ 0 < cap
              /\ cap < n
              /\ deviceMem' = [Overrun(deviceMem, d_outputShapes)
                                  EXCEPT ![d_outputShapes] = DeviceZero(@, n)]
              /\ pc' = "draw_launch"
              /\ UNCHANGED cudaLastError
           \/ /\ HandleCUDAError("cudaErrorInvalidValue")
    /\ UNCHANGED <<viewVars, uiVars, auxVars, scVars, d_viewTransform, pendingUnits,
                   overrunPending, kernelFault, unitsRun, launchSnapshot>>

\* the work units of the launch whose slices lie inside both buffers
InBoundsUnits(launched) ==
    {u \in 0..(launched - 1) :
        /\ (u + 1) * SHAPE_DIM * VERT_DIM <= Capacity(deviceMem, d_inputShapes)
        /\ (u + 1) * SHAPE_DIM * VERT_DIM <= Capacity(deviceMem, d_outputShapes)}

\* applyViewTransform<<<blocks, 1024>>>( ... ): the status of the launch is
\* not looked at; a launch of zero blocks is an invalid configuration and
\* any launch can fail, and then no work unit runs
DrawLaunch ==
    /\ pc = "draw_launch"
    /\ LET blocks == Blocks(Len(shapes))
           launched == blocks * BLOCK_SIZE
       IN  \/ /\ blocks = 0
              /\ cudaLastError' = "cudaErrorInvalidConfiguration"
              /\ UNCHANGED <<pendingUnits, overrunPending, launchSnapshot>>
           \/ /\ blocks > 0
              /\ cudaLastError' = "cudaErrorLaunchFailure"
              /\ UNCHANGED <<pendingUnits, overrunPending, launchSnapshot>>
           \/ /\ blocks > 0
              /\ pendingUnits' = InBoundsUnits(launched)
              /\ overrunPending' = launched - Cardinality(InBoundsUnits(launched))
              /\ launchSnapshot' =
                    <<IF d_inputShapes \in DOMAIN deviceMem
                      THEN deviceMem[d_inputShapes] ELSE <<>>,
                      IF d_outputShapes \in DOMAIN deviceMem
                      THEN deviceMem[d_outputShapes] ELSE <<>>,
                      deviceMem[d_viewTransform]>>
              /\ UNCHANGED cudaLastError
    /\ pc' = "draw_kernel"
    /\ unitsRun' = 0
    /\ UNCHANGED <<viewVars, uiVars, auxVars, scVars, d_viewTransform, deviceMem,
                   kernelFault>>

\* the output slice of the work unit u made indeterminate
SliceIndet(outBuf, u) ==
    [k \in 1..Len(outBuf) |->
        IF k > u * SHAPE_DIM * VERT_DIM /\ k <= (u + 1) * SHAPE_DIM * VERT_DIM
        THEN Indet ELSE outBuf[k]]

\* one work unit whose slices lie inside the buffers runs the kernel body;
\* the slice of a unit that has no shape was not cleared by the memset,
\* and the sums such a unit leaves there are not followed
KernelUnit ==
    /\ pc = "draw_kernel"
    /\ \E u \in pendingUnits :
        /\ deviceMem' = [deviceMem EXCEPT ![d_outputShapes] =
                            IF u < Len(shapes)
                            THEN applyViewTransform(deviceMem[d_inputShapes], @,
                                                    deviceMem[d_viewTransform], u)
                            ELSE SliceIndet(@, u)]
        /\ pendingUnits' = pendingUnits \ {u}
    /\ unitsRun' = unitsRun + 1
    /\ UNCHANGED <<viewVars, uiVars, auxVars, scVars, d_viewTransform, cudaLastError,
                   overrunPending, kernelFault, launchSnapshot, pc>>

\* the launched work units past the end of the buffers run the kernel
\* body: they read and write outside both buffers, which is undefined;
\* the accesses hit an illegal address, or land in the allocations above
\* the output buffer, or land in no allocation
KernelOverrun ==
    /\ pc = "draw_kernel"
    /\ overrunPending > 0
    /\ \/ /\ kernelFault' = TRUE
          /\ UNCHANGED deviceMem
       \/ /\ deviceMem' = Overrun(deviceMem, d_outputShapes)
          /\ UNCHANGED kernelFault
       \/ UNCHANGED <<deviceMem, kernelFault>>
    /\ overrunPending' = 0
    /\ unitsRun' = unitsRun + overrunPending
    /\ UNCHANGED <<viewVars, uiVars, auxVars, scVars, d_viewTransform, cudaLastError,
                   pendingUnits, launchSnapshot, pc>>

Mut_DrawSync ==
    /\ pc = "draw_kernel"
    /\ \/ /\ ~kernelFault
          /\ pc' = "draw_download"
          /\ UNCHANGED <<cudaLastError, deviceMem>>
       \/ HandleCUDAError(IF kernelFault THEN "cudaErrorIllegalAddress"
                          ELSE "cudaErrorUnknown")
    /\ UNCHANGED <<viewVars, uiVars, auxVars, scVars, d_viewTransform,
                   pendingUnits, overrunPending, kernelFault, unitsRun,
                   launchSnapshot>>

\* cudaDeviceSynchronize() returns when every work unit has finished; it
\* reports an illegal address hit by the kernel
DrawSync ==
    /\ pc = "draw_kernel"
    /\ pendingUnits = {}
    /\ overrunPending = 0
    /\ \/ /\ ~kernelFault
          /\ pc' = "draw_download"
          /\ UNCHANGED <<cudaLastError, deviceMem>>
       \/ HandleCUDAError(IF kernelFault THEN "cudaErrorIllegalAddress"
                          ELSE "cudaErrorUnknown")
    /\ UNCHANGED <<viewVars, uiVars, auxVars, scVars, d_viewTransform,
                   pendingUnits, overrunPending, kernelFault, unitsRun,
                   launchSnapshot>>

\* cudaMemcpy( outputShapes, d_outputShapes, ..., cudaMemcpyDeviceToHost ):
\* nothing to do for zero bytes, and for a buffer shorter than the request
\* either an error or a read beyond the buffer
DrawDownload ==
    /\ pc = "draw_download"
    /\ LET n == BufferSize(Len(shapes))
           cap == Capacity(deviceMem, d_outputShapes)
       IN  \/ /\ n = 0
              /\ outputShapes' = <<>>
              /\ pc' = "draw_parse"
              /\ UNCHANGED <<cudaLastError, deviceMem>>
           \/ /\ 0 < n
              /\ 0 < cap
              /\ outputShapes' = DeviceRead(deviceMem[d_outputShapes], n)
              /\ pc' = "draw_parse"
              /\ UNCHANGED <<cudaLastError, deviceMem>>
           \/ /\ HandleCUDAError("cudaErrorInvalidValue")
              /\ UNCHANGED outputShapes
    /\ UNCHANGED <<viewVars, uiVars, auxVars, shapes, d_inputShapes, d_outputShapes,
                   inputShapes, parsedShapes, mutated, pushedCount, liveTriangles,
                   d_viewTransform, pendingUnits, overrunPending,
                   kernelFault, unitsRun, launchSnapshot>>

\* the loop that builds a Triangle from every twelve elements of the output
\* with new Triangle( verts[0], verts[1], verts[2] )
DrawParse ==
    /\ pc = "draw_parse"
    /\ parsedShapes' = ParseShapes(outputShapes, Len(shapes))
    /\ liveTriangles' = liveTriangles + Len(shapes)
    /\ pc' = "draw_lines"
    /\ UNCHANGED <<viewVars, uiVars, auxVars, shapes, d_inputShapes, d_outputShapes,
                   inputShapes, outputShapes, mutated, pushedCount, deviceVars>>

\* shape->draw( gc ) for every parsed shape, then the return, which ends
\* the lifetime of the local arrays
DrawLines ==
    /\ pc = "draw_lines"
    /\ pc' = "idle"
    /\ outputShapes' = <<>>
    /\ parsedShapes' = <<>>
    /\ unitsRun' = 0
    /\ launchSnapshot' = <<>>
    /\ UNCHANGED <<viewVars, uiVars, auxVars, shapes, d_inputShapes, d_outputShapes,
                   inputShapes, mutated, pushedCount, liveTriangles, d_viewTransform,
                   deviceMem, cudaLastError, pendingUnits, overrunPending,
                   kernelFault>>

(***************************************************************************)
(* The other operations of ShapeContainer.                                 *)
(***************************************************************************)
\* add( const Shape & ): shapes.insert( shapes.end(), shape.clone() )
add(shs, shape) == Append(shs, shape)

RECURSIVE addAll(_, _, _)
\* add( const ShapeContainer & ): add( *shape ) for each shape of sc, from
\* the k-th on
addAll(shs, sc, k) ==
    IF k > Len(sc) THEN shs ELSE addAll(add(shs, sc[k]), sc, k + 1)

\* erase(): every shape deleted, shapes.clear()
erase(shs) == <<>>

\* operator=: erase(); add( sc ); with sc the container itself the shapes
\* that add walks are the ones erase has just cleared
assign(shs, sc, self) == addAll(erase(shs), IF self THEN erase(shs) ELSE sc, 1)

\* the shapes a caller adds one at a time
AddArgs == {Triangle1}

Add ==
    /\ pc = "idle"
    /\ Len(shapes) < MaxShapes
    /\ \E t \in AddArgs : shapes' = add(shapes, t)
    /\ mutated' = TRUE
    /\ UNCHANGED <<viewVars, uiVars, auxVars, d_inputShapes, d_outputShapes,
                   inputShapes, outputShapes, parsedShapes, pushedCount, liveTriangles,
                   deviceVars, pc>>

Erase ==
    /\ pc = "idle"
    /\ shapes' = erase(shapes)
    /\ mutated' = TRUE
    /\ UNCHANGED <<viewVars, uiVars, auxVars, d_inputShapes, d_outputShapes,
                   inputShapes, outputShapes, parsedShapes, pushedCount, liveTriangles,
                   deviceVars, pc>>

\* the containers a caller assigns from
AssignSources == {<<Triangle2, Triangle1>>}

Assign ==
    /\ pc = "idle"
    /\ \/ \E sc \in AssignSources : shapes' = assign(shapes, sc, FALSE)
       \/ shapes' = assign(shapes, shapes, TRUE)
    /\ mutated' = TRUE
    /\ UNCHANGED <<viewVars, uiVars, auxVars, d_inputShapes, d_outputShapes,
                   inputShapes, outputShapes, parsedShapes, pushedCount, liveTriangles,
                   deviceVars, pc>>

\* ~ShapeContainer(): every shape deleted; the device pointers are left
\* as they are
Destroy ==
    /\ pc = "idle"
    /\ pc' = "destroyed"
    /\ shapes' = <<>>
    /\ UNCHANGED <<viewVars, uiVars, auxVars, d_inputShapes, d_outputShapes,
                   inputShapes, outputShapes, parsedShapes, mutated,
                   pushedCount, liveTriangles, deviceVars>>

\* the view changes of the arrow keys and of the reset key, between calls
\* on the container
KeyRotations == {<<1, 0>>}

ViewChange ==
    /\ pc = "idle"
    /\ \/ \E a \in KeyRotations : setRotation(a[1], a[2])
       \/ resetView
    /\ UNCHANGED nonViewVars

\* a fresh container next to a ViewContext whose transform buffer got the
\* middle address, so that later allocations fall on either side of it
Init ==
    /\ ViewInit
    /\ ScInit(2)

Next ==
    \/ Add
    \/ Erase
    \/ Assign
    \/ Destroy
    \/ PushToDevice
    \/ PushFreeOut
    \/ PushMallocIn
    \/ PushMallocOut
    \/ PushCopy
    \/ Draw
    \/ DrawMemset
    \/ DrawLaunch
    \/ KernelUnit
    \/ KernelOverrun
    \/ DrawSync
    \/ DrawDownload
    \/ DrawParse
    \/ DrawLines
    \/ ViewChange

Spec == Init /\ [][Next]_vars

(***************************************************************************)
(* The program: the handlers of DrawContext, run by the event loop.        *)
(* pushToDevice is called by none of them.                                 *)
(***************************************************************************)
\* what a handler leaves alone when it changes the view and paints
paintFrame == <<windowWidth, windowHeight, mouseVars, shapes, auxVars>>

\* paint( gc ): the canvas cleared, vc->update(), the axes, sc.draw
Paint ==
    /\ pc = "idle"
    /\ update(viewTranslation, viewRotation, viewScale)
    /\ drawBegin(transform')
    /\ UNCHANGED <<viewTranslation, viewRotation, viewScale, paintFrame,
                   drawAxis>>

\* key A: drawAxis = !drawAxis; paint( gc )
KeyA ==
    /\ pc = "idle"
    /\ drawAxis' = ~drawAxis
    /\ update(viewTranslation, viewRotation, viewScale)
    /\ drawBegin(transform')
    /\ UNCHANGED <<viewTranslation, viewRotation, viewScale, paintFrame>>

\* key R: vc->resetView(); paint( gc )
KeyR ==
    /\ pc = "idle"
    /\ resetView
    /\ drawBegin(transform')
    /\ UNCHANGED <<paintFrame, drawAxis>>

\* the arguments of setRotation for the keys left, right, up and down
ArrowRotations == {<<-1, 0>>, <<1, 0>>, <<0, 1>>, <<0, -1>>}

\* an arrow key: vc->setRotation( ... ); paint( gc )
KeyArrow ==
    /\ pc = "idle"
    /\ \E a \in ArrowRotations : setRotation(a[1], a[2])
    /\ drawBegin(transform')
    /\ UNCHANGED <<paintFrame, drawAxis>>

\* the facets readFacets() returns for the files a user names
StlFiles == {<<>>, <<Triangle1>>, <<Triangle2, Triangle1>>}

\* key O, fileOpen( gc ): sc = stlReader.readFacets(); vc->resetView();
\* paint( gc )
FileOpen ==
    /\ pc = "idle"
    /\ \E file \in StlFiles : shapes' = assign(shapes, file, FALSE)
    /\ mutated' = TRUE
    /\ resetView
    /\ \/ /\ deviceMem' = [deviceMem EXCEPT ![d_viewTransform] =
                              FlattenTransform(transform')]
          /\ pc' = "draw_memset"
          /\ UNCHANGED cudaLastError
       \/ HandleCUDAError("cudaErrorInvalidValue")
    /\ UNCHANGED <<windowWidth, windowHeight, drawAxis, mouseVars, auxVars,
                   d_inputShapes,
                   d_outputShapes, inputShapes, outputShapes, parsedShapes,
                   pushedCount, liveTriangles, d_viewTransform, pendingUnits, overrunPending,
                   kernelFault, unitsRun, launchSnapshot>>

ProgramInit ==
    /\ ViewInit
    /\ \E a \in DeviceAddrs : ScInit(a)

\* the device pointers of sc stay null, so no launch of the program has a
\* work unit inside a buffer
ProgramNext ==
    \/ Paint
    \/ KeyA
    \/ KeyR
    \/ KeyArrow
    \/ FileOpen
    \/ Resize
    \/ DrawMemset
    \/ DrawLaunch
    \/ DrawSync
    \/ DrawDownload
    \/ DrawParse
    \/ DrawLines

SpecProgram == ProgramInit /\ [][ProgramNext]_vars

(***************************************************************************)
(* The mouse handlers of DrawContext.  A handler runs to its end before    *)
(* the event loop takes the next event: the step of a handler that paints  *)
(* sets what the handler leaves behind and begins the draw of its paint,   *)
(* and the steps of that draw follow before any other handler.  Mouse      *)
(* positions are in pixels.  The orbit angle getX() / 200 is in radians;   *)
(* the positions of the model are QuarterTurnPixels apart, which is a      *)
(* turn of 1.57 rad and is taken to be the quarter turn.                   *)
(***************************************************************************)
MOUSE_BUTTON_LEFT == 1

MOUSE_BUTTON_CENTER == 2

MOUSE_BUTTON_RIGHT == 3

MOUSE_BUTTON_SCROLL_IN == 4

MOUSE_BUTTON_SCROLL_OUT == 5

mouseDeltaThreshold == 8

QuarterTurnPixels == 314

\* the pans leave the view at most MaxDrag drags of QuarterTurnPixels at
\* the default zoom away from the origin on an axis
MaxDrag == 1

MouseButtons ==
    {MOUSE_BUTTON_LEFT, MOUSE_BUTTON_CENTER, MOUSE_BUTTON_RIGHT,
     MOUSE_BUTTON_SCROLL_IN, MOUSE_BUTTON_SCROLL_OUT}

MousePositions == {<<0, 0>>, <<QuarterTurnPixels, QuarterTurnPixels>>}

\* the scroll factors 1.05 and 1 / 1.05
ZOOM_IN == <<Rat(21, 20), Rat(21, 20), R(1)>>

ZOOM_OUT == <<Rat(20, 21), Rat(20, 21), R(1)>>

InDragRange(t) ==
    \A i \in 1..3 :
        \E k \in -MaxDrag..MaxDrag :
            t[i] = RDiv(R(k * QuarterTurnPixels), DEFAULT_VIEW_SCALE[1])

\* the zoom stays between the default and one scroll step in
InScrollRange(s) == s \in {DEFAULT_VIEW_SCALE,
                           <<R(105), R(105), DEFAULT_VIEW_SCALE[3]>>}

\* Point2D::operator-
PointSub(a, b) == <<a[1] - b[1], a[2] - b[2]>>

\* the square root in whole pixels
Isqrt(n) == CHOOSE r \in 0..n : r * r <= n /\ (r + 1) * (r + 1) > n

\* Point2D::magnitude(): sqrt( pow( getX(), 2 ) + pow( getY(), 2 ) )
magnitude(p) == Isqrt(p[1] * p[1] + p[2] * p[2])

\* std::abs( lastMouseDelta.magnitude() - mouseDelta.magnitude() ) >
\* mouseDeltaThreshold
overThreshold(mouseDelta) ==
    Abs(magnitude(lastMouseDelta) - magnitude(mouseDelta)) > mouseDeltaThreshold

\* mouseDelta.getX() / 200 in quarter turns
orbitAngle(d) == d \div QuarterTurnPixels

\* mouseDelta.getX() / scale and -mouseDelta.getY() / scale
panArgs(mouseDelta) ==
    <<RDiv(R(mouseDelta[1]), viewScale[1]),
      RNeg(RDiv(R(mouseDelta[2]), viewScale[1]))>>

\* pan( x, y ) throws for a rotation outside the four quadrants
panThrows ==
    \/ Quadrant(viewRotation[2]) \notin 0..3
    \/ Quadrant(viewRotation[1]) \notin 0..3

\* the translation pan( x, y ) leaves
panned(x, y) ==
    LET dx == panXTranslation(viewRotation[2], x)
        dy == panYTranslation(viewRotation, y)
    IN  <<RAdd(viewTranslation[1], RAdd(dx[1], dy[1])),
          RAdd(viewTranslation[2], RAdd(dx[2], dy[2])),
          RAdd(viewTranslation[3], RAdd(dx[3], dy[3]))>>

\* the rotation rotate( x, y ) leaves
rotated(x, y) ==
    <<NormalizeRotation(viewRotation[1] + x),
      NormalizeRotation(viewRotation[2] + y)>>

\* what a handler that paints leaves alone besides the mouse state
handlerFrame == <<windowWidth, windowHeight, drawAxis, shapes, auxVars>>

\* a handler that moves the view to t and rot, paints, and then sets the
\* translation and the rotation to tEnd and rotEnd
paintMoved(t, rot, tEnd, rotEnd) ==
    /\ viewTranslation' = tEnd
    /\ viewRotation' = rotEnd
    /\ UNCHANGED viewScale
    /\ update(tEnd, rotEnd, viewScale)
    /\ drawBegin(UpdateTransform(t, rot, viewScale, windowWidth, windowHeight))
    /\ UNCHANGED handlerFrame

Mut_mouseButtonDown(button, pos) ==
    IF button = MOUSE_BUTTON_LEFT /\ ~panActive
    THEN /\ panActive' = TRUE
         /\ mouseStartPos' = pos
         /\ lastMouseDelta' = <<0, 0>>
         /\ UNCHANGED <<orbitActive, viewVars, windowWidth, windowHeight,
                        drawAxis, scVars, deviceVars, pc, auxVars>>
    ELSE IF button = MOUSE_BUTTON_RIGHT /\ ~orbitActive
    THEN /\ orbitActive' = TRUE
         /\ mouseStartPos' = pos
         /\ lastMouseDelta' = <<0, 0>>
         /\ UNCHANGED <<panActive, viewVars, windowWidth, windowHeight,
                        drawAxis, scVars, deviceVars, pc, auxVars>>
    ELSE UNCHANGED vars

\* mouseButtonDown( gc, button, x, y )
mouseButtonDown(button, pos) ==
    IF button = MOUSE_BUTTON_LEFT /\ ~panActive /\ ~orbitActive
    THEN /\ panActive' = TRUE
         /\ mouseStartPos' = pos
         /\ lastMouseDelta' = <<0, 0>>
         /\ UNCHANGED <<orbitActive, viewVars, windowWidth, windowHeight,
                        drawAxis, scVars, deviceVars, pc, auxVars>>
    ELSE IF button = MOUSE_BUTTON_RIGHT /\ ~panActive /\ ~orbitActive
    THEN /\ orbitActive' = TRUE
         /\ mouseStartPos' = pos
         /\ lastMouseDelta' = <<0, 0>>
         /\ UNCHANGED <<panActive, viewVars, windowWidth, windowHeight,
                        drawAxis, scVars, deviceVars, pc, auxVars>>
    ELSE IF /\ button \in {MOUSE_BUTTON_SCROLL_IN, MOUSE_BUTTON_SCROLL_OUT}
            /\ ~panActive
            /\ ~orbitActive
    THEN LET f == IF button = MOUSE_BUTTON_SCROLL_IN THEN ZOOM_IN
                  ELSE ZOOM_OUT
         IN  /\ scale(f[1], f[2], f[3])
             /\ InScrollRange(viewScale')
             /\ drawBegin(transform')
             /\ UNCHANGED <<handlerFrame, mouseVars>>
    ELSE UNCHANGED vars

\* mouseButtonUp( gc, button, x, y )
mouseButtonUp(button) ==
    IF button = MOUSE_BUTTON_LEFT
    THEN LET a == panArgs(lastMouseDelta)
         IN  IF panThrows THEN pan(a[1], a[2])
             ELSE /\ paintMoved(panned(a[1], a[2]), viewRotation,
                                panned(a[1], a[2]), viewRotation)
                  /\ InDragRange(viewTranslation')
                  /\ panActive' = FALSE
                  /\ UNCHANGED <<orbitActive, mouseStartPos, lastMouseDelta>>
    ELSE IF button = MOUSE_BUTTON_RIGHT
    THEN LET r == rotated(orbitAngle(lastMouseDelta[2]),
                          orbitAngle(lastMouseDelta[1]))
         IN  /\ paintMoved(viewTranslation, r, viewTranslation, r)
             /\ orbitActive' = FALSE
             /\ UNCHANGED <<panActive, mouseStartPos, lastMouseDelta>>
    ELSE UNCHANGED vars

Mut_mouseMove(pos) ==
    LET mouseDelta == PointSub(pos, mouseStartPos)
    IN  IF panActive /\ overThreshold(mouseDelta) /\ ~panThrows
        THEN LET a == panArgs(mouseDelta)
             IN  /\ paintMoved(panned(a[1], a[2]), viewRotation,
                               panned(a[1], a[2]), viewRotation)
                 /\ lastMouseDelta' = mouseDelta
                 /\ UNCHANGED <<panActive, orbitActive, mouseStartPos>>
        ELSE UNCHANGED vars

\* mouseMove( gc, x, y ): the view is moved by the drag so far, painted,
\* and set back to what it was
mouseMove(pos) ==
    LET mouseDelta == PointSub(pos, mouseStartPos)
    IN  IF panActive
        THEN IF overThreshold(mouseDelta)
             THEN LET a == panArgs(mouseDelta)
                  IN  IF panThrows THEN pan(a[1], a[2])
                      ELSE /\ paintMoved(panned(a[1], a[2]), viewRotation,
                                         viewTranslation, viewRotation)
                           /\ lastMouseDelta' = mouseDelta
                           /\ UNCHANGED <<panActive, orbitActive,
                                          mouseStartPos>>
             ELSE UNCHANGED vars
        ELSE IF orbitActive
        THEN IF overThreshold(mouseDelta)
             THEN /\ paintMoved(viewTranslation,
                                rotated(orbitAngle(mouseDelta[2]),
                                        orbitAngle(mouseDelta[1])),
                                viewTranslation, rotated(0, 0))
                  /\ lastMouseDelta' = mouseDelta
                  /\ UNCHANGED <<panActive, orbitActive, mouseStartPos>>
             ELSE UNCHANGED vars
        ELSE UNCHANGED vars

MouseButtonDown ==
    /\ pc = "idle"
    /\ \E button \in MouseButtons, pos \in MousePositions :
           mouseButtonDown(button, pos)

MouseButtonUp ==
    /\ pc = "idle"
    /\ \E button \in MouseButtons : mouseButtonUp(button)

MouseMove ==
    /\ pc = "idle"
    /\ \E pos \in MousePositions : mouseMove(pos)

MouseNext ==
    \/ MouseButtonDown
    \/ MouseButtonUp
    \/ MouseMove
    \/ KeyR
    \/ DrawMemset
    \/ DrawLaunch
    \/ DrawSync
    \/ DrawDownload
    \/ DrawParse
    \/ DrawLines

SpecMouse == InitView /\ [][MouseNext]_vars

(***************************************************************************)
(* The shapes of a ShapeContainer as objects.  heap maps the address of    *)
(* every live Point3D to its coordinates and of every live Triangle to     *)
(* the three Point3D pointers it holds; held is the vector of Shape        *)
(* pointers of the container, heldB the one of a second container.         *)
(***************************************************************************)
HeapIds == 1..(4 * (2 * MaxShapes + 1))

\* the address operator new returns
FreshId(used) ==
    CHOOSE x \in HeapIds \ used : \A y \in HeapIds \ used : x <= y

Extend(h, id, obj) ==
    [x \in DOMAIN h \cup {id} |-> IF x = id THEN obj ELSE h[x]]

Remove(h, ids) == [x \in DOMAIN h \ ids |-> h[x]]

\* Point3D::clone(): new Point3D( getX(), getY(), getZ() )
clonePoint(h, p) ==
    LET id == FreshId(DOMAIN h)
    IN  [heap |-> Extend(h, id, [kind |-> "Point3D", p |-> p]), id |-> id]

\* new Triangle( start, mid, end, color ): the three points are cloned
newTriangle(h, start, mid, end) ==
    LET a == clonePoint(h, start)
        b == clonePoint(a.heap, mid)
        c == clonePoint(b.heap, end)
        id == FreshId(DOMAIN c.heap)
    IN  [heap |-> Extend(c.heap, id, [kind |-> "Triangle",
                                       verts |-> <<a.id, b.id, c.id>>]),
         id |-> id]

\* the vertices of the Triangle at t, read through its three pointers
TriangleValue(h, t) ==
    <<h[h[t].verts[1]].p, h[h[t].verts[2]].p, h[h[t].verts[3]].p>>

Mut_clone(h, t) ==
    LET id == FreshId(DOMAIN h)
    IN  [heap |-> Extend(h, id, h[t]), id |-> id]

\* Triangle::clone(): new Triangle( *verts[0], *verts[1], *verts[2], color )
clone(h, t) ==
    newTriangle(h, h[h[t].verts[1]].p, h[h[t].verts[2]].p,
                h[h[t].verts[3]].p)

\* delete shape: ~Triangle deletes the three points, then the Triangle is
\* freed; bad records a delete of an object that is not live
deleteShape(st, t) ==
    IF t \notin DOMAIN st.heap
    THEN [heap |-> st.heap, bad |-> TRUE]
    ELSE LET vs == {st.heap[t].verts[i] : i \in 1..3}
         IN  [heap |-> Remove(st.heap, vs \cup {t}),
              bad |-> \/ st.bad
                      \/ Cardinality(vs) < 3
                      \/ ~(vs \subseteq DOMAIN st.heap)]

RECURSIVE deleteAll(_, _, _)
\* std::for_each( shapes.begin(), shapes.end(), delete shape ), from the
\* k-th pointer on
deleteAll(st, ptrs, k) ==
    IF k > Len(ptrs) THEN st
    ELSE deleteAll(deleteShape(st, ptrs[k]), ptrs, k + 1)

\* add( const Shape & ) on the pointers: shapes.insert( shapes.end(),
\* shape.clone() )
addShape(st, t) ==
    LET c == clone(st.heap, t)
    IN  [heap |-> c.heap, ptrs |-> Append(st.ptrs, c.id)]

RECURSIVE addShapes(_, _, _)
\* add( const ShapeContainer & ): add( *shape ) for each pointer of sc
addShapes(st, sc, k) ==
    IF k > Len(sc) THEN st ELSE addShapes(addShape(st, sc[k]), sc, k + 1)

\* the values of the shapes a vector of pointers leads to
Contents(h, ptrs) == [i \in 1..Len(ptrs) |-> TriangleValue(h, ptrs[i])]

nonHeapVars ==
    <<viewVars, uiVars, deviceVars, pc, matVars, viewException,
      d_inputShapes, d_outputShapes, inputShapes, outputShapes, parsedShapes,
      mutated, pushedCount, liveTriangles>>

\* the caller constructs Triangle( p1, p2, p3 )
CallerNew ==
    /\ callerShape = NULL
    /\ LET t == newTriangle(heap, Triangle1[1], Triangle1[2], Triangle1[3])
       IN  /\ heap' = t.heap
           /\ callerShape' = t.id
    /\ UNCHANGED <<held, heldB, doubleDelete, destroyed, shapes, nonHeapVars>>

\* the caller moves the first vertex of its Triangle
CallerModify ==
    /\ callerShape # NULL
    /\ heap[heap[callerShape].verts[1]].p # Triangle2[1]
    /\ heap' = [heap EXCEPT ![heap[callerShape].verts[1]].p = Triangle2[1]]
    /\ UNCHANGED <<held, heldB, callerShape, doubleDelete, destroyed, shapes,
                   nonHeapVars>>

\* the Triangle of the caller is destroyed
CallerDelete ==
    /\ callerShape # NULL
    /\ LET d == deleteShape([heap |-> heap, bad |-> doubleDelete], callerShape)
       IN  /\ heap' = d.heap
           /\ doubleDelete' = d.bad
    /\ callerShape' = NULL
    /\ UNCHANGED <<held, heldB, destroyed, shapes, nonHeapVars>>

\* sc.add( shape ) with the Triangle of the caller
HeapAdd ==
    /\ ~destroyed
    /\ callerShape # NULL
    /\ Len(held) < MaxShapes
    /\ LET a == addShape([heap |-> heap, ptrs |-> held], callerShape)
       IN  /\ heap' = a.heap
           /\ held' = a.ptrs
    /\ shapes' = add(shapes, TriangleValue(heap, callerShape))
    /\ UNCHANGED <<heldB, callerShape, doubleDelete, destroyed, nonHeapVars>>

\* the number of shapes the second container is given
OtherShapes == 1

\* other.add( shape ) with the Triangle of the caller
HeapAddB ==
    /\ callerShape # NULL
    /\ Len(heldB) < OtherShapes
    /\ LET a == addShape([heap |-> heap, ptrs |-> heldB], callerShape)
       IN  /\ heap' = a.heap
           /\ heldB' = a.ptrs
    /\ UNCHANGED <<held, callerShape, doubleDelete, destroyed, shapes,
                   nonHeapVars>>

\* sc.add( other )
HeapAddAll ==
    /\ ~destroyed
    /\ heldB # <<>>
    /\ Len(held) + Len(heldB) <= MaxShapes
    /\ LET a == addShapes([heap |-> heap, ptrs |-> held], heldB, 1)
       IN  /\ heap' = a.heap
           /\ held' = a.ptrs
    /\ shapes' = addAll(shapes, Contents(heap, heldB), 1)
    /\ UNCHANGED <<heldB, callerShape, doubleDelete, destroyed, nonHeapVars>>

\* sc.erase()
HeapErase ==
    /\ ~destroyed
    /\ LET d == deleteAll([heap |-> heap, bad |-> doubleDelete], held, 1)
       IN  /\ heap' = d.heap
           /\ doubleDelete' = d.bad
    /\ held' = <<>>
    /\ shapes' = erase(shapes)
    /\ UNCHANGED <<heldB, callerShape, destroyed, nonHeapVars>>

\* other.erase()
HeapEraseB ==
    /\ heldB # <<>>
    /\ LET d == deleteAll([heap |-> heap, bad |-> doubleDelete], heldB, 1)
       IN  /\ heap' = d.heap
           /\ doubleDelete' = d.bad
    /\ heldB' = <<>>
    /\ UNCHANGED <<held, callerShape, destroyed, shapes, nonHeapVars>>

\* sc = other, or sc = sc: erase(), then add( sc ) walks the vector of
\* the source as erase() left it
heapAssign(self) ==
    /\ ~destroyed
    /\ LET d == deleteAll([heap |-> heap, bad |-> doubleDelete], held, 1)
           a == addShapes([heap |-> d.heap, ptrs |-> <<>>],
                          IF self THEN <<>> ELSE heldB, 1)
       IN  /\ heap' = a.heap
           /\ held' = a.ptrs
           /\ doubleDelete' = d.bad
           /\ shapes' = assign(shapes, Contents(heap, heldB), self)
    /\ UNCHANGED <<heldB, callerShape, destroyed, nonHeapVars>>

HeapAssign == \E self \in BOOLEAN : heapAssign(self)

\* ~ShapeContainer
HeapDestroy ==
    /\ ~destroyed
    /\ LET d == deleteAll([heap |-> heap, bad |-> doubleDelete], held, 1)
       IN  /\ heap' = d.heap
           /\ doubleDelete' = d.bad
    /\ held' = <<>>
    /\ destroyed' = TRUE
    /\ shapes' = <<>>
    /\ UNCHANGED <<heldB, callerShape, nonHeapVars>>

HeapNext ==
    \/ CallerNew
    \/ CallerModify
    \/ CallerDelete
    \/ HeapAdd
    \/ HeapAddB
    \/ HeapAddAll
    \/ HeapErase
    \/ HeapEraseB
    \/ HeapAssign
    \/ HeapDestroy

SpecHeap == InitView /\ [][HeapNext]_vars

\* the Triangle objects that are referenced, and the objects each owns
LiveShapes ==
    {held[i] : i \in 1..Len(held)} \cup {heldB[i] : i \in 1..Len(heldB)}
        \cup (IF callerShape = NULL THEN {} ELSE {callerShape})

Owned(t) == {t} \cup {heap[t].verts[i] : i \in 1..3}

\* every referenced Triangle is live and owns three live points of its
\* own, no pointer is held twice, and no other object is live
C20_OwnedOnce ==
    /\ ~doubleDelete
    /\ Cardinality(LiveShapes) =
           Len(held) + Len(heldB) + (IF callerShape = NULL THEN 0 ELSE 1)
    /\ LiveShapes \subseteq DOMAIN heap
    /\ \A t \in LiveShapes :
           Owned(t) \subseteq DOMAIN heap /\ Cardinality(Owned(t)) = 4
    /\ \A t \in LiveShapes, u \in LiveShapes :
           t # u => Owned(t) \cap Owned(u) = {}
    /\ DOMAIN heap = UNION {Owned(t) : t \in LiveShapes}

\* what the container holds is what add was given, whatever has happened
\* to the shape of the caller since
C20_DeepCopy == C20_OwnedOnce => Contents(heap, held) = shapes

C20_EraseStep ==
    (HeapErase \/ HeapDestroy) =>
        /\ Len(held') = 0
        /\ \A i \in 1..Len(held) : Owned(held[i]) \cap DOMAIN heap' = {}

PushPcs == {"push_free_out", "push_malloc_in", "push_malloc_out", "push_copy"}

DrawPcs == {"draw_memset", "draw_launch", "draw_kernel", "draw_download",
            "draw_parse", "draw_lines"}

\* the device allocations other than the one of the ViewContext
ContainerBuffers == DOMAIN deviceMem \ {d_viewTransform}

\* C1: when pushToDevice has run since the last change of the collection,
\* the triangles that draw rebuilds from the output buffer are, shape by
\* shape and vertex by vertex, modelToDevice of the original vertices.
C1_BatchedEqualsPerVertex ==
    (pc = "draw_lines" /\ pushedCount >= 0 /\ ~mutated) =>
        parsedShapes = [s \in 1..Len(shapes) |->
                           [v \in 1..SHAPE_DIM |-> modelToDevice(shapes[s][v])]]

\* C3: in the program, whenever draw is under way pushToDevice has run after
\* the latest change of the collection, and both device buffers hold
\* shape count x 3 x 4 elements.
C3_DrawOnlyAfterPush ==
    pc \in DrawPcs =>
        /\ ~mutated
        /\ Capacity(deviceMem, d_inputShapes) = 12 * Len(shapes)
        /\ Capacity(deviceMem, d_outputShapes) = 12 * Len(shapes)

\* C4, for a live container outside pushToDevice: both device buffers hold
\* 12 x the shape count of the latest pushToDevice, which is the current
\* count while the collection has not changed since.
C4_CapacityOfLatestPush ==
    (pushedCount >= 0 /\ pc \notin PushPcs \cup {"exited", "destroyed"}) =>
        /\ Capacity(deviceMem, d_inputShapes) = 12 * pushedCount
        /\ Capacity(deviceMem, d_outputShapes) = 12 * pushedCount
        /\ ~mutated => 12 * pushedCount = 12 * Len(shapes)

\* C4, the step after an upload: an add, or an erase of a non-empty
\* collection, leaves buffers whose capacity is not 12 x the new count.
C4_AddOrEraseAfterPush ==
    (/\ pc = "idle"
     /\ pc' = "idle"
     /\ pushedCount >= 0
     /\ ~mutated
     /\ \/ Len(shapes') = Len(shapes) + 1
        \/ Len(shapes) > 0 /\ shapes' = <<>>) =>
        /\ Capacity(deviceMem', d_inputShapes') # 12 * Len(shapes')
        /\ Capacity(deviceMem', d_outputShapes') # 12 * Len(shapes')

\* C4: the capacity of both device buffers is always 12 x the shape count
\* at the latest pushToDevice; it is 12 x the current count right after an
\* upload and stops being so with a later add or erase of a non-empty
\* collection.
C4_Capacity == [](C4_CapacityOfLatestPush) /\ [][C4_AddOrEraseAfterPush]_vars

\* an add after an upload of one shape: buffers of 12, two shapes
C4_Witness ==
    /\ pc = "idle"
    /\ mutated
    /\ pushedCount = 1
    /\ Len(shapes) = 2
    /\ Capacity(deviceMem, d_inputShapes) = 12
    /\ Capacity(deviceMem, d_outputShapes) = 12

\* C5: a container never owns more than one input and one output buffer,
\* and once it is destroyed none of its buffers is still allocated.
C5_BuffersReleased ==
    /\ Cardinality(ContainerBuffers) <= 2
    /\ pc = "destroyed" => ContainerBuffers = {}

\* C6: a device call that did not succeed has ended the process.
C6_FailureTerminates == cudaLastError # "cudaSuccess" => pc = "exited"

\* C16: when draw follows pushToDevice on an empty collection, no work unit
\* has run, no error has been raised by any device call and no triangle is
\* there to be drawn when the lines are issued.
C16_EmptyDrawIsClean ==
    (pc = "draw_lines" /\ shapes = <<>> /\ pushedCount = 0 /\ ~mutated) =>
        /\ unitsRun = 0
        /\ parsedShapes = <<>>
        /\ cudaLastError = "cudaSuccess"

\* C7: when the launch went through and the synchronize has returned, the
\* number of work units that ran the kernel is the number of shapes.
C7_OneUnitPerShape ==
    (pc = "draw_download" /\ cudaLastError = "cudaSuccess") =>
        unitsRun = Len(shapes)

RECURSIVE RunUnits(_, _, _, _, _)
\* the work units u .. n - 1 run one after the other in index order
RunUnits(inBuf, outBuf, viewTransform, u, n) ==
    IF u >= n THEN outBuf
    ELSE RunUnits(inBuf,
                  IF u < Len(shapes)
                  THEN applyViewTransform(inBuf, outBuf, viewTransform, u)
                  ELSE SliceIndet(outBuf, u),
                  viewTransform, u + 1, n)

\* C8: when every work unit of a dispatch has run, the output buffer is
\* what the units give run one by one on the buffers as they were at the
\* launch, whatever the order they ran in.
C8_OrderIndependent ==
    (/\ pc = "draw_kernel"
     /\ launchSnapshot # <<>>
     /\ pendingUnits = {}
     /\ overrunPending = 0
     /\ ~kernelFault) =>
        deviceMem[d_outputShapes] =
            RunUnits(launchSnapshot[1], launchSnapshot[2], launchSnapshot[3], 0,
                     Len(launchSnapshot[2]) \div (SHAPE_DIM * VERT_DIM))

\* the steps of a draw in the order of the code: the transform upload is
\* the step from idle to draw_memset, the line drawing the one from
\* draw_lines back to idle
DrawOrder == <<"idle", "draw_memset", "draw_launch", "draw_kernel",
               "draw_download", "draw_parse", "draw_lines", "idle">>

C21_StepOrder ==
    (pc \in DrawPcs \/ pc' \in DrawPcs) =>
        \/ pc' = "exited"
        \/ pc = "draw_kernel" /\ pc' = "draw_kernel"
        \/ \E i \in 1..(Len(DrawOrder) - 1) :
               pc = DrawOrder[i] /\ pc' = DrawOrder[i + 1]

\* work units are pending or running only between the launch and the
\* return of the synchronize
C21_NoUnitOutsideKernelStep ==
    pc # "draw_kernel" => pendingUnits = {} /\ overrunPending = 0

\* C21: within each draw the steps occur in the order transform upload,
\* output zeroing, kernel launch, synchronize, download, line drawing; the
\* download starts only after every work unit of the dispatch has
\* finished, and no work unit of one draw runs during a step of the next.
C21_DrawSequence == [](C21_NoUnitOutsideKernelStep) /\ [][C21_StepOrder]_vars

\* the download is about to start after two work units have run
C21_Witness ==
    /\ pc = "draw_download"
    /\ Len(shapes) = 2
    /\ unitsRun >= 2
    /\ pendingUnits = {}

\* C24: every work unit of a launch reads and writes only indexes below
\* shapes.size() x 3 x 4, the capacity of the two buffers: the twelve
\* elements of every launched unit lie inside the buffers.
C24_UnitsInsideBuffers ==
    pc = "draw_kernel" =>
        /\ overrunPending = 0
        /\ \A u \in pendingUnits :
               (u + 1) * SHAPE_DIM * VERT_DIM <= BufferSize(Len(shapes))

\* the vertices a draw of n shapes brings back from the device when its
\* output buffer starts from zero: element k is what the work unit of its
\* shape leaves there, and depends on the input buffer and the transform
\* only
FrameOf(inBuf, viewTransform, n) ==
    LET unit == [shapeIdx \in 0..(n - 1) |->
                    applyViewTransform(inBuf, Repeat(R(0), BufferSize(n)),
                                       viewTransform, shapeIdx)]
    IN  [k \in 1..BufferSize(n) |->
            unit[(k - 1) \div (SHAPE_DIM * VERT_DIM)][k]]

\* the buffers hold the collection and the dispatch of the draw in
\* progress went through without a change to its inputs
SteadyDraw ==
    /\ launchSnapshot # <<>>
    /\ Len(shapes) > 0
    /\ ~mutated
    /\ Capacity(deviceMem, d_inputShapes) >= BufferSize(Len(shapes))
    /\ Capacity(deviceMem, d_outputShapes) >= BufferSize(Len(shapes))
    /\ deviceMem[d_inputShapes] = launchSnapshot[1]
    /\ deviceMem[d_viewTransform] = launchSnapshot[3]

C26_DrawReleasesItsTriangles == pc = "idle" => liveTriangles = 0

\* C28: after a = b the container a holds copies of exactly the shapes of
\* b in the order of b, in objects of its own, and b is as it was; after
\* a = a the container a holds what it held before.
C28_AssignStep ==
    \A self \in BOOLEAN :
        heapAssign(self) =>
            /\ Contents(heap', held') =
                  Contents(heap, IF self THEN held ELSE heldB)
            /\ Contents(heap', heldB) = Contents(heap, heldB)
            /\ \A i \in 1..Len(held') : \A j \in 1..Len(heldB) :
                  held'[i] # heldB[j]

C28_AssignCopies == [][C28_AssignStep]_vars

\* the view parameters a drag changes
dragParams == <<viewTranslation, viewRotation>>

\* C27: the release of the left button pans only when a pan drag is
\* active and the release of the right button rotates only when an orbit
\* drag is active: a release of a button whose drag was never started
\* leaves the translation and the rotation as they were.
C27_ReleaseStep ==
    dragParams' # dragParams =>
        /\ ~panActive => ~(pc = "idle" /\ mouseButtonUp(MOUSE_BUTTON_LEFT))
        /\ ~orbitActive => ~(pc = "idle" /\ mouseButtonUp(MOUSE_BUTTON_RIGHT))

C27_StrayReleaseIsIgnored == [][C27_ReleaseStep]_vars

viewParams == <<viewTranslation, viewRotation, viewScale>>

\* C29: a mouseMove leaves the stored translation, rotation and scale as
\* they were before the event, drag or no drag; the stored parameters
\* change only in a button release, a scroll event or a key command.
C29_MoveStep ==
    viewParams' # viewParams =>
        /\ ~MouseMove
        /\ MouseButtonUp \/ MouseButtonDown \/ KeyR

C29_MoveIsUndone == [][C29_MoveStep]_vars

\* a move of an active pan drag has painted the moved view and left the
\* stored translation where it was
C29_Witness ==
    /\ pc = "draw_memset"
    /\ panActive
    /\ lastMouseDelta # <<0, 0>>
    /\ viewTranslation = DEFAULT_VIEW_TRANSLATION
    /\ deviceMem[d_viewTransform] # FlattenTransform(transform)

\* C30: panActive and orbitActive are never both true, and a drag flag is
\* raised only in a step that starts with neither of them set.
C30_NotBoth == ~(panActive /\ orbitActive)

C30_StartStep ==
    (panActive' /\ ~panActive) \/ (orbitActive' /\ ~orbitActive) =>
        ~panActive /\ ~orbitActive

C30_OneDragAtATime == [](C30_NotBoth) /\ [][C30_StartStep]_vars

\* an orbit drag under way, in which a press of the left button can come
C30_Witness ==
    /\ pc = "idle"
    /\ orbitActive
    /\ ~panActive
    /\ lastMouseDelta # <<0, 0>>
    /\ viewRotation # DEFAULT_VIEW_ROTATION

====
